---- MODULE Spec2Model ----
(***************************************************************************)
(* Verification model of the frequency-constrained topology optimisation   *)
(* helpers in refactor_utils_freq.py:                                      *)
(*   - ReducedProblem: the reduced-variable adapter around a full-size     *)
(*     optimisation problem (fixed/free index partition, evaluation        *)
(*     counter, snapshots);                                                *)
(*   - FrequencyConstr.constraint: the shifted eigenvalue constraint with  *)
(*     its retry-once convergence policy and its KS aggregation;           *)
(*   - FrequencyConstr.qn_correction: the quasi-Newton update correction;  *)
(*   - the non-design blocks (computeNonDesignMat, addNonDesignMat,        *)
(*     GeneralEigSolver.compute) and find_indices;                         *)
(* of createTopoProblem, computeVertexLoad, interpolateDesignVec,          *)
(* addNaturalFrequencyConstraint and densityBasedRefine in TopOptUtils.py; *)
(* and of the mesh refinement loops of comp-min.py and bernstein.py.       *)
(* Floating point values are modelled by integers (exact arithmetic).      *)
(***************************************************************************)
EXTENDS Integers, Sequences, FiniteSets, TLC

VARIABLES
    rp,     \* the ReducedProblem object's fields
    rpcall, \* the most recent ReducedProblem call and what it handed to the wrapped problem
    rt,     \* a reduDVtoDV / DVtoreduDV round trip in progress
    fc,     \* the FrequencyConstr object's fields
    asm,    \* the assembler: design variables and state variables
    jd,     \* the Jacobi-Davidson solver: converged count and held eigenvalues
    call,   \* the constraint call in progress: position and per-call bookkeeping
    pre,    \* the FrequencyConstr fields when the latest call reached the assembly (line 168)
    hist,   \* history over all constraint calls
    ksio,   \* one KS aggregation on its own: the eigenvalues given and the result
    qn,     \* the most recent FrequencyConstr.qn_correction call
    topo,   \* a createTopoProblem call: the mesh hierarchy built so far
    util,   \* the most recent call of a TopOptUtils helper
    drv,    \* a refinement driver run (comp-min.py or bernstein.py)
    ndm,    \* the most recent non-design-block operation and what it did
    mark,   \* a densityBasedRefine call: the elements given and the marks made
    found   \* a find_indices call: the forest and box given and the indices returned

vars == <<rp, rpcall, rt, fc, asm, jd, call, pre, hist, ksio, qn, topo, util, drv, ndm, mark, found>>

-----------------------------------------------------------------------------
(* Bounds of the model *)

\* length of the full-size design vector (len(self._x))
NDV == 2
\* number of ReducedProblem.evalObjCon calls explored
MaxEvals == 2
\* largest configured save_snapshot_every
MaxSnapEvery == 2

\* an omitted optional argument (Python's None); a given one is <<value>>
None == <<>>

\* values an entry of a design vector takes
DVValues == {0, 1}

DVIdx == 0 .. (NDV - 1)

Range(s) == {s[k] : k \in 1 .. Len(s)}

FullVecs == [DVIdx -> DVValues]

ReducedVecs(n) == [1 .. n -> DVValues]

RECURSIVE SortedSeq(_)
\* the ascending list of a set of indices
SortedSeq(S) ==
    IF S = {} THEN <<>>
    ELSE LET m == CHOOSE x \in S : \A y \in S : x <= y
         IN <<m>> \o SortedSeq(S \ {m})

\* the fixed index lists a caller passes: ascending lists of valid indices
FixedLists == {SortedSeq(S) : S \in SUBSET DVIdx}

\* what the wrapped full-size problem returns from evalObjCon: <<fobj, con[0]>>
ProbResults == {<<0, 1>>, <<1, -1>>}

-----------------------------------------------------------------------------
(* ReducedProblem *)

RECURSIVE FreeFrom(_, _, _)
FreeFrom(i, n, fixed) ==
    IF i >= n THEN <<>>
    ELSE (IF i \in Range(fixed) THEN <<>> ELSE <<i>>) \o FreeFrom(i + 1, n, fixed)

\* a plausible slip: the membership test dropped for the last index
FreeDvIdxKeepsLast(n, fixed) ==
    FreeFrom(0, n - 1, fixed) \o (IF n > 0 THEN <<n - 1>> ELSE <<>>)

\* [i for i in range(len(self._x)) if i not in self.fixed_dv_idx]
FreeDvIdx(n, fixed) == FreeFrom(0, n, fixed)

\* ReducedProblem.__init__: the fields after construction
RPConstruct(fixed, val, every, hasqn) ==
    LET free == FreeDvIdx(NDV, fixed)
    IN [fixed_dv_idx |-> fixed,
        fixed_dv_val |-> val,
        free_dv_idx |-> free,
        nvars |-> Len(free),
        qn_correction_func |-> hasqn,
        x_full |-> [i \in DVIdx |-> 0],
        s_full |-> [i \in DVIdx |-> 0],
        y_full |-> [i \in DVIdx |-> 0],
        num_obj_evals |-> 0,
        save_snapshot_every |-> every,
        snapshot |-> [iter |-> <<>>, obj |-> <<>>, infeas |-> <<>>,
                      discreteness |-> <<>>]]

\* a plausible slip: the free entries written in reversed order
reduDVtoDVReversed(reduDV, DV, fixed_val, self) ==
    LET val == IF fixed_val = None THEN self.fixed_dv_val ELSE fixed_val[1]
        n == Len(self.free_dv_idx)
    IN [i \in DVIdx |->
          IF \E k \in 1 .. n : self.free_dv_idx[k] = i
          THEN reduDV[n + 1 - (CHOOSE k \in 1 .. n : self.free_dv_idx[k] = i)]
          ELSE IF i \in Range(self.fixed_dv_idx) THEN val ELSE DV[i]]

\* a plausible slip: the fixed entries are left as they were
reduDVtoDVSkipsFixed(reduDV, DV, fixed_val, self) ==
    [i \in DVIdx |->
       IF \E k \in 1 .. Len(self.free_dv_idx) : self.free_dv_idx[k] = i
       THEN reduDV[CHOOSE k \in 1 .. Len(self.free_dv_idx) : self.free_dv_idx[k] = i]
       ELSE DV[i]]

\* ReducedProblem.reduDVtoDV: the full-size vector after the call
reduDVtoDV(reduDV, DV, fixed_val, self) ==
    LET val == IF fixed_val = None THEN self.fixed_dv_val ELSE fixed_val[1]
        DV1 == IF self.fixed_dv_idx # <<>>
               THEN [i \in DVIdx |->
                       IF i \in Range(self.fixed_dv_idx) THEN val ELSE DV[i]]
               ELSE DV
    IN IF self.free_dv_idx # <<>>
       THEN [i \in DVIdx |->
               IF \E k \in 1 .. Len(self.free_dv_idx) : self.free_dv_idx[k] = i
               THEN reduDV[CHOOSE k \in 1 .. Len(self.free_dv_idx) :
                             self.free_dv_idx[k] = i]
               ELSE DV1[i]]
       ELSE DV1

\* ReducedProblem.DVtoreduDV: the reduced vector after the call
DVtoreduDV(DV, reduDV, self) ==
    IF self.free_dv_idx # <<>>
    THEN [k \in 1 .. Len(self.free_dv_idx) |-> DV[self.free_dv_idx[k]]]
    ELSE reduDV

Max(a, b) == IF a >= b THEN a ELSE b

RECURSIVE Dot(_, _)
\* np.dot of two reduced vectors
Dot(a, b) == IF a = <<>> THEN 0 ELSE Head(a) * Head(b) + Dot(Tail(a), Tail(b))

\* np.dot(x_g, 1.0 - x_g) / len(x_g), kept as <<numerator, denominator>>
Discreteness(x) == <<Dot(x, [k \in 1 .. Len(x) |-> 1 - x[k]]), Len(x)>>

\* the full-size gradients the wrapped problem returns: constant vectors
QnFull == {[i \in DVIdx |-> c] : c \in DVValues}

\* the quasi-Newton inputs s and y explored: constant reduced vectors
QnInputs(n) == {[k \in 1 .. n |-> c] : c \in DVValues}

\* the correction callback bound as qn_correction_func, with the filter and the
\* curvature operator taken as the identity: y <- y + z * update when the
\* curvature svec . update is positive, update zeroed at zero_idx
QnCorrectionFunc(zero_idx, z, s_full, y_full) ==
    LET svec == [i \in DVIdx |->
                   IF zero_idx # <<>> /\ i \in Range(zero_idx) THEN 0 ELSE s_full[i]]
        update == svec
        curvature == Dot([k \in 1 .. NDV |-> svec[k - 1]],
                         [k \in 1 .. NDV |-> update[k - 1]])
    IN IF curvature > 0
       THEN [i \in DVIdx |-> y_full[i] + z * update[i]]
       ELSE y_full

\* the conversion evalObjCon and evalObjConGradient apply to their input
PopulateFull(x, self) == reduDVtoDV(x, self.x_full, None, self)

\* a plausible slip: the snapshot test made on the advanced counter
SnapshotDueOffByOne(self) == (self.num_obj_evals + 1) % self.save_snapshot_every = 0

\* self.num_obj_evals % self.save_snapshot_every == 0
SnapshotDue(self) == self.num_obj_evals % self.save_snapshot_every = 0

\* ReducedProblem.evalObjCon(x); the wrapped problem returns res or raises
evalObjCon(x, res, raises) ==
    /\ rpcall.completed < MaxEvals
    /\ LET X == PopulateFull(x, rp)
           fobj == res[1]
           con0 == res[2]
           snap == rp.snapshot
       IN IF raises
          THEN /\ rp' = [rp EXCEPT !.x_full = X]
               /\ rpcall' = [rpcall EXCEPT !.op = "evalObjCon", !.x = x,
                                           !.passed = X, !.out = <<>>,
                                           !.returned = FALSE]
          ELSE /\ rp' = [rp EXCEPT
                    !.x_full = X,
                    !.snapshot =
                        IF SnapshotDue(rp)
                        THEN [iter |-> Append(snap.iter, rp.num_obj_evals),
                              obj |-> Append(snap.obj, fobj),
                              infeas |-> Append(snap.infeas, Max(-con0, 0)),
                              discreteness |->
                                  Append(snap.discreteness, Discreteness(x))]
                        ELSE snap,
                    !.num_obj_evals = rp.num_obj_evals + 1]
               /\ rpcall' = [rpcall EXCEPT !.op = "evalObjCon", !.x = x,
                                           !.passed = X, !.out = <<>>,
                                           !.returned = TRUE,
                                           !.completed = rpcall.completed + 1]
    /\ UNCHANGED <<rt, fc, asm, jd, call, pre, hist, ksio, qn, topo, util, drv, ndm, mark,
                   found>>

\* ReducedProblem.evalObjConGradient(x, g, A); gfull is the gradient the wrapped
\* problem writes to _g (the buffers _g and _A are not kept between calls)
evalObjConGradient(x, gfull) ==
    /\ LET X == PopulateFull(x, rp)
       IN /\ rp' = [rp EXCEPT !.x_full = X]
          /\ rpcall' = [rpcall EXCEPT !.op = "evalObjConGradient", !.x = x,
                                      !.passed = X,
                                      !.out = DVtoreduDV(gfull, <<>>, rp),
                                      !.returned = TRUE]
    /\ UNCHANGED <<rt, fc, asm, jd, call, pre, hist, ksio, qn, topo, util, drv, ndm, mark,
                   found>>

\* ReducedProblem.computeQuasiNewtonUpdateCorrection(x, z, zw, s, y)
computeQuasiNewtonUpdateCorrection(z, s, y) ==
    /\ IF rp.qn_correction_func
       THEN LET S == reduDVtoDV(s, rp.s_full, <<0>>, rp)
                Y == reduDVtoDV(y, rp.y_full, <<0>>, rp)
                Y2 == QnCorrectionFunc(rp.fixed_dv_idx, z, S, Y)
            IN /\ rp' = [rp EXCEPT !.s_full = S, !.y_full = Y2]
               /\ rpcall' = [rpcall EXCEPT
                      !.op = "computeQuasiNewtonUpdateCorrection",
                      !.x = s, !.passed = None,
                      !.out = DVtoreduDV(Y2, y, rp), !.returned = TRUE]
       ELSE /\ rp' = rp
            /\ rpcall' = [rpcall EXCEPT
                      !.op = "computeQuasiNewtonUpdateCorrection",
                      !.x = s, !.passed = None, !.out = y, !.returned = TRUE]
    /\ UNCHANGED <<rt, fc, asm, jd, call, pre, hist, ksio, qn, topo, util, drv, ndm, mark,
                   found>>

\* one conversion of a reduced vector r into a full-size vector DV
RTExpand(r, DV, fixed_val) ==
    /\ rt.stage = "start"
    /\ rt' = [stage |-> "expanded", r |-> r, fixed_val |-> fixed_val,
              DV |-> reduDVtoDV(r, DV, fixed_val, rp), r2 |-> <<>>]
    /\ UNCHANGED <<rp, rpcall, fc, asm, jd, call, pre, hist,
                   ksio, qn, topo, util, drv, ndm, mark, found>>

\* the conversion back into a reduced vector holding r2
RTReduce(r2) ==
    /\ rt.stage = "expanded"
    /\ rt' = [rt EXCEPT !.stage = "reduced", !.r2 = DVtoreduDV(rt.DV, r2, rp)]
    /\ UNCHANGED <<rp, rpcall, fc, asm, jd, call, pre, hist,
                   ksio, qn, topo, util, drv, ndm, mark, found>>


-----------------------------------------------------------------------------
(* The finite-element back end used by FrequencyConstr: a diagonal stand-in  *)
(* for the assembler, the matrices and the Jacobi-Davidson solver            *)

\* number of degrees of freedom of the stand-in assembler
NDof == 2
\* num_eigenvalues of the FrequencyConstr explored
NumEig == 2
\* largest design level the assembler's density takes
MaxRho == 1
\* number of constraint calls explored
MaxCalls == 2
\* the lambda0 and eig_scale values a FrequencyConstr is configured with
Lambdas == {1, 2}
EigScales == {2}
\* the ksrho default of FrequencyConstr.__init__
ksrhoDefault == 50
\* the errors of a Ritz value the solver has not converged
RitzErrs == {1}
\* the filter and preconditioner objects a caller may pass
Objects == {1, 2}
\* mscale and kscale defaults of FrequencyConstr.__init__
mscale == 10
kscale == 1

Dofs == 1 .. NDof

\* a matrix: its diagonal and whether boundary conditions are applied to its
\* current values
Mat(d, bcs) == [d |-> d, bcs |-> bcs]

\* assembler.createMat()
ZeroMat == Mat([j \in Dofs |-> 0], FALSE)

\* assembleMatType(STIFFNESS_MATRIX): stiffness with a penalised density (the
\* cube of the density, so that its sensitivity is not linear in the density)
StiffnessMat(rho) == Mat([j \in Dofs |-> rho * rho * rho * j], TRUE)

\* assembleMatType(MASS_MATRIX): mass linear in the density
MassMat(rho) == Mat([j \in Dofs |-> rho], TRUE)

\* A.axpy(a, B): A <- A + a * B
MatAxpy(A, a, B) == Mat([j \in Dofs |-> A.d[j] + a * B.d[j]], FALSE)

\* A.addDiag(c)
MatAddDiag(A, c) == Mat([j \in Dofs |-> A.d[j] + c], FALSE)

\* A.scale(c)
MatScale(A, c) == Mat([j \in Dofs |-> c * A.d[j]], A.bcs)

\* assembler.applyMatBCs(A)
ApplyMatBCs(A) == Mat(A.d, TRUE)

RECURSIVE SortedDofs(_, _)
\* the degrees of freedom S in ascending order of their diagonal value
SortedDofs(d, S) ==
    IF S = {} THEN <<>>
    ELSE LET m == CHOOSE j \in S :
                    \A k \in S : d[j] < d[k] \/ (d[j] = d[k] /\ j <= k)
         IN <<m>> \o SortedDofs(d, S \ {m})

\* the n smallest eigenvalues of a diagonal matrix, ascending
Eigenvalues(A, n) == [i \in 1 .. n |-> A.d[SortedDofs(A.d, Dofs)[i]]]

\* jd.solve() on operator A: nconvd eigenpairs converge; the Ritz values of the
\* others are off by err
JDSolve(A, n, nconvd, err, recycle) ==
    [nconvd |-> nconvd,
     recycle |-> recycle,
     vals |-> [i \in 1 .. n |->
                 Eigenvalues(A, n)[i] + (IF i > nconvd THEN err ELSE 0)],
     vecs |-> [i \in 1 .. n |->
                 [dof |-> SortedDofs(A.d, Dofs)[i], conv |-> i <= nconvd]]]

\* a vector as createVec() returns it
ZeroVec == [dof |-> 0, conv |-> FALSE]

-----------------------------------------------------------------------------
(* FrequencyConstr *)

\* FrequencyConstr.__init__
FCConstruct(lambda0, eig_scale, add_nd) ==
    [lambda0 |-> lambda0, eig_scale |-> eig_scale, ksrho |-> ksrhoDefault,
     num_eigenvalues |-> NumEig, add_non_design_mass |-> add_nd,
     old_min_eigval |-> 0,
     fltr |-> 0, mg |-> 0,
     eig |-> <<>>, eigv |-> <<>>, eta |-> <<>>,
     mmat |-> ZeroMat, Amat |-> ZeroMat, mgmat |-> ZeroMat,
     m0mat |-> ZeroMat, k0mat |-> ZeroMat,
     mgfactored |-> <<>>,
     dcdrho |-> <<>>,
     curvs |-> <<>>, qn_time |-> <<>>]

\* FrequencyConstr.computeNonDesignMat: the non-design blocks M0 and K0
computeNonDesignMat(self) ==
    [self EXCEPT !.m0mat = MatScale(MassMat(1), mscale),
                 !.k0mat = MatScale(StiffnessMat(1), kscale)]

\* FrequencyConstr.addNonDesignMat(mmat, kmat): <<mmat, kmat>> after the call
addNonDesignMat(self, mmat, kmat) ==
    LET m1 == ApplyMatBCs(MatAxpy(mmat, 1, self.m0mat))
        k1 == MatAxpy(kmat, 1, self.k0mat)
    IN <<ApplyMatBCs(m1), k1>>

\* a plausible slip: the first-call test made on the preconditioner argument
FirstCallOnNewMg(self, fltr, mg) == self.mg # mg

\* if self.fltr is None
FirstCall(self, fltr, mg) == self.fltr = 0

\* the allocation block of constraint (without the non-design blocks)
Allocate(self, fltr, mg) ==
    [self EXCEPT !.mg = mg, !.fltr = fltr,
                 !.mgmat = ZeroMat, !.mmat = ZeroMat, !.Amat = ZeroMat,
                 !.eig = [i \in 1 .. self.num_eigenvalues |-> 0],
                 !.eigv = [i \in 1 .. self.num_eigenvalues |-> ZeroVec]]

\* a plausible slip: the cached shift left out of the diagonal
DiagShiftWithoutOld(self) == 1

\* the diagonal added to A before the solve: 1.0 - self.old_min_eigval
DiagShift(self) == 1 - self.old_min_eigval

\* constraint, from the mass assembly to the factorisation of the preconditioner
AssembleOperator(self, rho) ==
    LET m0 == MassMat(rho)
        k0 == StiffnessMat(rho)
        mk == IF self.add_non_design_mass
              THEN addNonDesignMat(self, m0, k0)
              ELSE <<m0, k0>>
        A1 == MatAxpy(mk[2], -self.lambda0, mk[1])
        A2 == ApplyMatBCs(MatAddDiag(A1, DiagShift(self)))
    IN [self EXCEPT !.mmat = mk[1], !.Amat = A2, !.mgmat = A2,
                    !.mgfactored = <<A2.d>>]

\* nconvd < self.num_eigenvalues
NotConverged(self, nconvd) == nconvd < self.num_eigenvalues

\* a plausible slip: the retry wrapped in a loop instead of tried once
AfterRerunLoops(self, nconvd) ==
    IF NotConverged(self, nconvd) THEN "rerun" ELSE "extract"

\* where constraint goes after the rerun: the fatal path or the extraction
AfterRerun(self, nconvd) ==
    IF NotConverged(self, nconvd) THEN "fail" ELSE "extract"

\* a plausible slip: the sign of the shift of mgmat
MgmatShiftWrongSign(eig0) == eig0

\* the diagonal added to mgmat before the rerun: -eig0
MgmatShift(eig0) == -eig0

\* a plausible slip: the cached shift left out of the adjustment
EigAdjustWithoutOld(self) == -1

\* the value added to every extracted eigenvalue: self.old_min_eigval - 1.0
EigAdjust(self) == self.old_min_eigval - 1

\* the diagonal added to A after the extraction: self.old_min_eigval - 1.0
DiagUnshift(self) == self.old_min_eigval - 1

RECURSIVE MinOf(_)
\* np.min
MinOf(e) ==
    IF Len(e) = 1 THEN e[1]
    ELSE LET m == MinOf(Tail(e)) IN IF e[1] <= m THEN e[1] ELSE m

\* the exponents -ksrho * (eig - eig_min) of the terms np.exp(...) of line 323
KSExponents(self, scaled, eig_min) ==
    [i \in 1 .. Len(scaled) |-> -self.ksrho * (scaled[i] - eig_min)]

\* the result of lines 320-326 from the exponents: exponentials are kept by
\* their exponents. beta lists the exponents of the terms np.sum adds up, so
\* the KS value is eig_min - log(sum of exp(beta[k])) / ksrho, and the weight
\* eta[i] is exp(eta[i].logw) / (sum of exp(eta[i].beta[k]))
KSResult(eig_min, logw, beta) ==
    [eig_min |-> eig_min, logw |-> logw, beta |-> beta,
     eta |-> [i \in 1 .. Len(logw) |-> [logw |-> logw[i], beta |-> beta]]]

\* a plausible slip: eig[0] taken for the smallest eigenvalue, as line 271 does
KSAggregateFromFirst(self, scaled) ==
    LET logw == KSExponents(self, scaled, scaled[1])
    IN KSResult(scaled[1], logw, logw)

\* a plausible slip: the weights left undivided by beta (a divisor exp(0) = 1)
KSAggregateUnnormalised(self, scaled) ==
    LET logw == KSExponents(self, scaled, MinOf(scaled))
    IN [KSResult(MinOf(scaled), logw, logw) EXCEPT
           !.eta = [i \in 1 .. Len(logw) |-> [logw |-> logw[i], beta |-> <<0>>]]]

\* lines 320-326: eig_min, eta = exp(-ksrho * (eig - eig_min)), beta =
\* sum(eta), ks = eig_min - log(beta) / ksrho, eta = eta / beta
KSAggregate(self, scaled) ==
    LET eig_min == MinOf(scaled)
        logw == KSExponents(self, scaled, eig_min)
    IN KSResult(eig_min, logw, logw)

\* v^T dK/drho v and v^T dM/drho v of the stand-in assembler at density rho
StiffnessSens(v, rho) == 3 * rho * rho * v.dof
MassSens(v, rho) == 1

\* FrequencyConstr.constraint_gradient: per eigenpair the coefficient
\* eta[i] * eig_scale (eta by its exponents) and the sensitivity it multiplies
constraint_gradient(self, rho) ==
    [i \in 1 .. self.num_eigenvalues |->
       [logw |-> self.eta[i], eig_scale |-> self.eig_scale,
        sens |-> StiffnessSens(self.eigv[i], rho)
                 - self.lambda0 * MassSens(self.eigv[i], rho)]]

\* the state of a call that is not in progress
IdleCall(result, ks) ==
    [pc |-> "idle", fltr |-> 0, mg |-> 0, nsolves |-> 0, nfactor |-> 0,
     nconvd1 |-> -1, eig0 |-> <<>>, result |-> result, ks |-> ks]

\* constraint(fltr, mg), lines 119-200: allocation on the first call, assembly
\* of the shifted operator, factorisation of the preconditioner
ConstraintEnter(fltr, mg) ==
    /\ call.pc = "idle"
    /\ hist.ncalls < MaxCalls
    /\ LET first == FirstCall(fc, fltr, mg)
           f0 == IF first THEN Allocate(fc, fltr, mg) ELSE fc
           f1 == IF first /\ fc.add_non_design_mass
                 THEN computeNonDesignMat(f0) ELSE f0
       IN /\ fc' = AssembleOperator(f1, asm.dv)
          /\ call' = [pc |-> "solve1", fltr |-> fltr, mg |-> mg,
                      nsolves |-> 0, nfactor |-> 1, nconvd1 |-> -1,
                      eig0 |-> <<>>, result |-> "none", ks |-> <<>>]
          /\ pre' = f1
          /\ hist' = [hist EXCEPT
                 !.ncalls = hist.ncalls + 1,
                 !.nalloc = hist.nalloc + (IF first THEN 1 ELSE 0),
                 !.nbuild = hist.nbuild
                     + (IF first /\ fc.add_non_design_mass THEN 1 ELSE 0),
                 !.first = IF hist.ncalls = 0 THEN <<fltr, mg>> ELSE hist.first,
                 !.files = IF first /\ fc.add_non_design_mass
                           THEN hist.files \cup {"non_design_mass.f5"}
                           ELSE hist.files]
    /\ UNCHANGED <<rp, rpcall, rt, asm, jd, ksio, qn, topo, util, drv, ndm, mark, found>>

\* lines 205-209: the first solve
JDSolveFirst(nconvd, err) ==
    /\ call.pc = "solve1"
    /\ jd' = JDSolve(fc.Amat, fc.num_eigenvalues, nconvd, err, fc.num_eigenvalues)
    /\ call' = [call EXCEPT !.nsolves = call.nsolves + 1, !.nconvd1 = nconvd,
                            !.pc = IF NotConverged(fc, nconvd)
                                   THEN "rerun" ELSE "extract"]
    /\ UNCHANGED <<rp, rpcall, rt, fc, asm, pre, hist, ksio, qn, topo, util, drv, ndm,
                   mark, found>>

\* lines 210-230: recycle what converged and make mgmat positive definite
PrepareRerun ==
    /\ call.pc = "rerun"
    /\ LET eig0 == jd.vals[1]
           shifted == ApplyMatBCs(MatAddDiag(fc.mgmat, MgmatShift(eig0)))
       IN /\ jd' = [jd EXCEPT !.recycle = jd.nconvd]
          /\ IF eig0 > 0
             THEN /\ fc' = fc
                  /\ call' = [call EXCEPT !.pc = "solve2", !.eig0 = <<eig0>>]
             ELSE /\ fc' = [fc EXCEPT !.mgmat = shifted,
                                      !.mgfactored = <<shifted.d>>]
                  /\ call' = [call EXCEPT !.pc = "solve2", !.eig0 = <<eig0>>,
                                          !.nfactor = call.nfactor + 1]
    /\ UNCHANGED <<rp, rpcall, rt, asm, pre, hist, ksio, qn, topo, util, drv, ndm, mark,
                   found>>

\* lines 233-234: the rerun of the solver
JDSolveRerun(nconvd, err) ==
    /\ call.pc = "solve2"
    /\ jd' = JDSolve(fc.Amat, fc.num_eigenvalues, nconvd, err, jd.recycle)
    /\ call' = [call EXCEPT !.nsolves = call.nsolves + 1,
                            !.pc = AfterRerun(fc, nconvd)]
    /\ UNCHANGED <<rp, rpcall, rt, fc, asm, pre, hist, ksio, qn, topo, util, drv, ndm,
                   mark, found>>

\* a plausible slip: the fatal path also caching the shift for the next call
ExtractUnconvergedSetsShift(self, solver) ==
    [self EXCEPT !.eig = solver.vals, !.eigv = solver.vecs,
                 !.old_min_eigval = solver.vals[1]]

\* a plausible slip: the fatal path forgetting the cached shift
ExtractUnconvergedResetsShift(self, solver) ==
    [self EXCEPT !.eig = solver.vals, !.eigv = solver.vecs, !.old_min_eigval = 0]

\* lines 243-244: the solver's eigenpairs copied to eig and eigv for the dump
ExtractUnconverged(self, solver) ==
    [self EXCEPT !.eig = solver.vals, !.eigv = solver.vecs]

\* lines 237-256: the rerun failed too; dump the unconverged eigenvector, raise
ConstraintFail ==
    /\ call.pc = "fail"
    /\ fc' = ExtractUnconverged(fc, jd)
    /\ asm' = [asm EXCEPT !.vars = fc'.eigv[jd.nconvd + 1]]
    /\ hist' = [hist EXCEPT !.failed = <<asm.dv>>,
                            !.files = hist.files \cup {"fail.f5"}]
    /\ call' = IdleCall("raised", <<>>)
    /\ UNCHANGED <<rp, rpcall, rt, jd, pre, ksio, qn, topo, util, drv, ndm, mark, found>>

\* lines 258-336 on the fields: extraction, un-shift, new cached shift, KS
\* aggregation; the fields after them and the KS result
ExtractAndAggregate(self, solver) ==
    LET n == self.num_eigenvalues
        eig == [i \in 1 .. n |-> solver.vals[i] + EigAdjust(self)]
        A == ApplyMatBCs(MatAddDiag(self.Amat, DiagUnshift(self)))
        scaled == [i \in 1 .. n |-> eig[i] * self.eig_scale]
        ks == KSAggregate(self, scaled)
        back == [i \in 1 .. n |-> scaled[i] \div self.eig_scale]
    IN [self |-> [self EXCEPT !.eig = back, !.eigv = solver.vecs, !.Amat = A,
                              !.old_min_eigval = eig[1], !.eta = ks.eta],
        ks |-> ks]

\* lines 258-336: extraction, un-shift, new cached shift, KS aggregation
ConstraintFinish ==
    /\ call.pc = "extract"
    /\ LET r == ExtractAndAggregate(fc, jd)
       IN /\ fc' = r.self
          /\ asm' = [asm EXCEPT !.vars = jd.vecs[1]]
          /\ call' = IdleCall("returned", <<r.ks>>)
          /\ hist' = [hist EXCEPT
                 !.prev = hist.last,
                 !.last = <<[rho |-> asm.dv, shift |-> fc.old_min_eigval,
                             eig |-> r.self.eig, ks |-> r.ks, grad |-> <<>>]>>]
    /\ UNCHANGED <<rp, rpcall, rt, jd, pre, ksio, qn, topo, util, drv, ndm, mark, found>>

\* FrequencyConstr.constraint_gradient, called by the optimizer at the design
\* point of the constraint evaluation that just returned
ConstraintGradient ==
    /\ call.pc = "idle"
    /\ call.result = "returned"
    /\ hist.last[1].rho = asm.dv
    /\ LET g == constraint_gradient(fc, asm.dv)
       IN /\ fc' = [fc EXCEPT !.dcdrho = g]
          /\ hist' = [hist EXCEPT !.last[1].grad = <<g>>]
    /\ UNCHANGED <<rp, rpcall, rt, asm, jd, call, pre, ksio, qn, topo, util, drv, ndm,
                   mark, found>>

\* assembler.setDesignVars between two evaluations
SetDesignVars(rho) ==
    /\ call.pc = "idle"
    /\ rho # asm.dv
    /\ asm' = [asm EXCEPT !.dv = rho]
    /\ UNCHANGED <<rp, rpcall, rt, fc, jd, call, pre, hist,
                   ksio, qn, topo, util, drv, ndm, mark, found>>

-----------------------------------------------------------------------------
(* FrequencyConstr.qn_correction *)

\* the finite-difference step h of line 423, in the unit densities are
\* counted in
h == 1
\* most qn_correction calls followed
MaxQnCalls == 2
\* the entries of the step s the optimizer hands over
QnSteps == {-1, 0, 1}
\* the steps tried: the constant ones and one of alternating sign
QnStepVecs(n) ==
    {[k \in 1 .. n |-> c] : c \in QnSteps}
       \cup {[k \in 1 .. n |-> IF k % 2 = 1 THEN 1 ELSE -1]}
\* the densities the constraint was evaluated at
QnRhos == {0, 1}
\* the multipliers z[0]
QnMultipliers == {1, 2}
\* the wall-clock durations MPI.Wtime() measures
QnDurations == {1}

\* A value that is linear in the KS weights, c[0] + c[1] * eta[1] + ... +
\* c[N] * eta[N], is kept by its coefficients c.
LinIdx == 0 .. NumEig
LinConst(c) == [i \in LinIdx |-> IF i = 0 THEN c ELSE 0]
LinEta(i, c) == [k \in LinIdx |-> IF k = i THEN c ELSE 0]
LinAdd(a, b) == [i \in LinIdx |-> a[i] + b[i]]
LinScale(k, a) == [i \in LinIdx |-> k * a[i]]
LinDiv(a, k) == [i \in LinIdx |-> a[i] \div k]

RECURSIVE LinSum(_, _)
\* the sum of the values f[x], x in S
LinSum(f, S) ==
    IF S = {} THEN LinConst(0)
    ELSE LET x == CHOOSE x \in S : TRUE IN LinAdd(f[x], LinSum(f, S \ {x}))

RECURSIVE IntSum(_, _)
IntSum(f, S) ==
    IF S = {} THEN 0
    ELSE LET x == CHOOSE x \in S : TRUE IN f[x] + IntSum(f, S \ {x})

RECURSIVE LinSignFrom(_, _, _)
\* the sign of sum of a[i] * eta[i] over S: that of the coefficients of the
\* largest weights that do not cancel (ksrho * eig_scale is large enough for
\* the smaller weights not to matter)
LinSignFrom(a, eta, S) ==
    IF S = {} THEN 0
    ELSE LET G == {i \in S : \A k \in S : eta[i].logw >= eta[k].logw}
             g == IntSum(a, G)
         IN IF g > 0 THEN 1 ELSE IF g < 0 THEN -1 ELSE LinSignFrom(a, eta, S \ G)

\* the sign of a value without constant part
LinSign(a, eta) == LinSignFrom(a, eta, 1 .. Len(eta))

\* the stand-in filter matrix F: dense and not symmetric
FilterMat(i, j) == IF j >= i THEN 1 ELSE 2

\* fltr.applyFilter: F * s
ApplyFilter(s) ==
    [i \in DVIdx |-> IntSum([j \in DVIdx |-> FilterMat(i, j) * s[j]], DVIdx)]

\* fltr.applyTranspose: F^T * u
ApplyTranspose(u) ==
    [j \in DVIdx |-> LinSum([i \in DVIdx |-> LinScale(FilterMat(i, j), u[i])], DVIdx)]

\* a plausible slip: the entries of the fixed variables left as computed
ZeroEntriesSkipped(vals, zero_idx, zero) == vals

\* if zero_idx: vals[zero_idx] = 0.0
ZeroEntries(vals, zero_idx, zero) ==
    IF zero_idx # <<>>
    THEN [j \in DVIdx |-> IF j \in Range(zero_idx) THEN zero ELSE vals[j]]
    ELSE vals

\* one pass of the loop of lines 436-447: per design variable the sum over
\* the eigenpairs of eta[i] * eig_scale * v^T dK v
\* - eta[i] * lambda0 * eig_scale * v^T dM v at the density rho
WeightedSens(self, rho) ==
    [j \in DVIdx |->
       LinSum([i \in 1 .. self.num_eigenvalues |->
                 LinAdd(LinEta(i, self.eig_scale
                                  * StiffnessSens(self.eigv[i], rho[j])),
                        LinEta(i, -self.lambda0 * self.eig_scale
                                  * MassSens(self.eigv[i], rho[j])))],
              1 .. self.num_eigenvalues)]

\* a plausible slip: the density not set back before the second evaluation
FDPointsNotRestored == <<[step |-> h, sign |-> 1], [step |-> h, sign |-> -1]>>

\* the densities rho_original + step * svec the sensitivity is evaluated at
\* and the sign each evaluation is added to temp with (lines 429-463)
FDPoints == <<[step |-> h, sign |-> 1], [step |-> 0, sign |-> -1]>>

\* the divisor of temp: update.axpy(1.0 / h, temp)
FDDivisor == h

\* lines 423-472: update = P * svec by finite differences
FiniteDifference(self, rho, svec) ==
    LET g(k) == WeightedSens(self, [j \in DVIdx |->
                                      rho[j] + FDPoints[k].step * svec[j]])
        temp == [j \in DVIdx |->
                   LinSum([k \in 1 .. Len(FDPoints) |->
                             LinScale(FDPoints[k].sign, g(k)[j])],
                          1 .. Len(FDPoints))]
    IN [j \in DVIdx |-> LinDiv(temp[j], FDDivisor)]

\* a plausible slip: the correction applied whenever the curvature is not zero
CurvatureOKNonZero(self, curvature) == LinSign(curvature, self.eta) # 0

\* if curvature > 0
CurvatureOK(self, curvature) == LinSign(curvature, self.eta) > 0

\* FrequencyConstr.qn_correction(zero_idx, z, s, y) at the assembler's
\* density rho: the intermediate vectors and y after the call
qn_correction(self, zero_idx, z, s, y, rho) ==
    LET Fs == ApplyFilter(s)
        svec == ZeroEntries(Fs, zero_idx, 0)
        fd == FiniteDifference(self, rho, svec)
        upd == ZeroEntries(fd, zero_idx, LinConst(0))
        curvature == LinSum([j \in DVIdx |-> LinScale(svec[j], upd[j])], DVIdx)
        apply == CurvatureOK(self, curvature)
        updT == ZeroEntries(ApplyTranspose(upd), zero_idx, LinConst(0))
    IN [filtered |-> Fs, svec |-> svec, points |-> FDPoints,
        divisor |-> FDDivisor, fd |-> fd, update |-> upd,
        rho_original |-> rho, s |-> s,
        dvs |-> [k \in 1 .. Len(FDPoints) |->
                   [j \in DVIdx |-> rho[j] + FDPoints[k].step * svec[j]]],
        curvature |-> curvature, applied |-> apply,
        final |-> IF apply THEN updT ELSE upd,
        y |-> [j \in DVIdx |->
                 IF apply THEN LinAdd(LinConst(y[j]), LinScale(z[1], updT[j]))
                 ELSE LinConst(y[j])]]

\* a plausible slip: the curvature recorded only when the correction is applied
RecordCurvatureWhenApplied(self, r, dt) ==
    IF r.applied
    THEN [self EXCEPT !.curvs = Append(@, r.curvature), !.qn_time = Append(@, dt)]
    ELSE self

\* lines 504-508: self.curvs.append(curvature), self.qn_time.append(...)
RecordCurvature(self, r, dt) ==
    [self EXCEPT !.curvs = Append(@, r.curvature), !.qn_time = Append(@, dt)]

\* the assembler of this model holds one density for all its nodes: that of
\* the first node of a density vector
UniformDensity(dv) == dv[0]

\* ReducedProblem.computeQuasiNewtonUpdateCorrection with qn_correction_func
\* bound to FrequencyConstr.qn_correction
QnThroughAdapter(z, s, y, dt) ==
    /\ rp.qn_correction_func
    /\ qn.ncalls < MaxQnCalls
    /\ LET S == reduDVtoDV(s, rp.s_full, <<0>>, rp)
           Y == reduDVtoDV(y, rp.y_full, <<0>>, rp)
           r == qn_correction(fc, rp.fixed_dv_idx, <<z>>, S, Y,
                              [j \in DVIdx |-> asm.dv])
       IN /\ rp' = [rp EXCEPT !.s_full = S, !.y_full = r.y]
          /\ rpcall' = [rpcall EXCEPT
                 !.op = "computeQuasiNewtonUpdateCorrection", !.x = s,
                 !.passed = None, !.returned = TRUE,
                 !.out = DVtoreduDV(r.y, y, rp)]
          /\ fc' = RecordCurvature(fc, r, dt)
          /\ asm' = [asm EXCEPT !.dv = UniformDensity(r.dvs[Len(r.dvs)])]
          /\ qn' = [ncalls |-> qn.ncalls + 1, zero_idx |-> rp.fixed_dv_idx,
                    z |-> z, s |-> S, y |-> Y, y_reduced |-> y, r |-> <<r>>,
                    dv_before |-> asm.dv]
    /\ UNCHANGED <<rt, jd, call, pre, hist, ksio, topo, util, drv, ndm, mark, found>>

\* no qn_correction call made yet
InitQn ==
    qn = [ncalls |-> 0, zero_idx |-> <<>>, z |-> 0, s |-> <<>>, y |-> <<>>,
          y_reduced |-> <<>>, r |-> <<>>, dv_before |-> 0]

\* the FrequencyConstr fields after one constraint evaluation at density rho
\* that converged in the first solve
Evaluated(lambda0, eig_scale, add_nd, rho) ==
    LET f0 == Allocate(FCConstruct(lambda0, eig_scale, add_nd), 1, 1)
        f1 == IF add_nd THEN computeNonDesignMat(f0) ELSE f0
        f2 == AssembleOperator(f1, rho)
        sol == JDSolve(f2.Amat, f2.num_eigenvalues, f2.num_eigenvalues, 0,
                       f2.num_eigenvalues)
    IN ExtractAndAggregate(f2, sol).self

\* a FrequencyConstr that has evaluated its constraint once
InitEvaluated(lambdas, scales, nds, rhos) ==
    /\ asm \in {[dv |-> r, vars |-> ZeroVec] : r \in rhos}
    /\ fc \in {Evaluated(l, sc, nd, asm.dv) : l \in lambdas, sc \in scales, nd \in nds}
    /\ jd = [nconvd |-> 0, recycle |-> 0, vals |-> <<>>, vecs |-> <<>>]
    /\ call = IdleCall("returned", <<>>)
    /\ pre = fc
    /\ hist = [ncalls |-> 1, nalloc |-> 1, nbuild |-> 0, first |-> <<1, 1>>,
               failed |-> <<>>, files |-> {}, prev |-> <<>>, last |-> <<>>]

-----------------------------------------------------------------------------
(* The KS aggregation of lines 316-336 on its own *)

\* largest aggregation sharpness tried
MaxKsrho == 3
\* the eigenvalues handed to the aggregation
KSEigVals == -1 .. 1
\* the values of eig_scale tried
KSScales == {-1, 1, 2}

\* lines 316-326 applied to the eigenvalues ksio.eig
KSApply ==
    /\ ksio.stage = "given"
    /\ LET scaled == [i \in 1 .. Len(ksio.eig) |-> ksio.eig[i] * ksio.self.eig_scale]
       IN ksio' = [ksio EXCEPT !.stage = "aggregated", !.scaled = scaled,
                               !.out = <<KSAggregate(ksio.self, scaled)>>]
    /\ UNCHANGED <<rp, rpcall, rt, fc, asm, jd, call, pre, hist, qn, topo, util, drv, ndm,
                   mark, found>>

InitKS(eigs, ksrhos, scales) ==
    ksio \in {[stage |-> "given", eig |-> e, scaled |-> <<>>, out |-> <<>>,
               self |-> [ksrho |-> k, eig_scale |-> sc, num_eigenvalues |-> Len(e)]] :
                e \in eigs, k \in ksrhos, sc \in scales}

-----------------------------------------------------------------------------
(* createTopoProblem (TopOptUtils.py): the hierarchy of meshes *)

\* most levels asked for
MaxLevels == 3
\* highest mesh order of the finest forest
MaxOrder == 4
\* the mesh orders a forest can have
MeshOrders == 2 .. MaxOrder

\* A forest is kept by the mesh it is defined on (the number of geometric
\* coarsenings from the finest mesh), its order, and the calls made on it,
\* in the order made.
Forest(mesh, order, events) == [mesh |-> mesh, order |-> order, events |-> events]

\* a plausible slip: the repartition left out
BalanceOnly(forest, repartition) ==
    [forest EXCEPT !.events = @ \o <<"balance">>]

\* forest.balance(1); if repartition: forest.repartition()
BalanceAndRepartition(forest, repartition) ==
    [forest EXCEPT !.events = @ \o <<"balance">>
                       \o (IF repartition THEN <<"repartition">> ELSE <<>>)]

\* lines 80-93: the forest of the next level from the last one
NextForest(last, lowest_order, repartition) ==
    IF last.order > lowest_order
    THEN Forest(last.mesh, last.order - 1, <<"duplicate", "setMeshOrder">>)
    ELSE BalanceAndRepartition(
            Forest(last.mesh + 1, last.order, <<"coarsen", "setMeshOrder">>),
            repartition)

\* lines 74-77 and 96-99: the callback on the forest, the forest, its filter
\* and its assembler appended
CreateLevel(t, forest) ==
    LET n == t.ncallbacks + 1
    IN [t EXCEPT !.ncallbacks = n,
                 !.forests = Append(@, [forest EXCEPT
                                          !.events = @ \o <<"callback", "createTACS">>]),
                 !.filters = Append(@, [callback |-> n, mesh |-> forest.mesh]),
                 !.assemblers = Append(@, [callback |-> n, mesh |-> forest.mesh,
                                           order |-> forest.order])]

\* a plausible slip: one pass of the loop per level asked for
LevelsToAddOffByOne(nlevels) == nlevels

\* range(nlevels - 1): the passes of the loop
LevelsToAdd(nlevels) == nlevels - 1

\* lines 69-77: the finest level
TopoFinest ==
    /\ topo.pc = "start"
    /\ topo' = [CreateLevel(topo, BalanceAndRepartition(
                                     Forest(0, topo.order0, <<>>), topo.repartition))
                  EXCEPT !.pc = "loop"]
    /\ UNCHANGED <<rp, rpcall, rt, fc, asm, jd, call, pre, hist, ksio, qn, util, drv, ndm,
                   mark, found>>

\* lines 79-99: one pass of the loop
TopoCoarser ==
    /\ topo.pc = "loop"
    /\ topo.i < LevelsToAdd(topo.nlevels)
    /\ topo' = [CreateLevel(topo, NextForest(topo.forests[Len(topo.forests)],
                                             topo.lowest_order, topo.repartition))
                  EXCEPT !.i = topo.i + 1]
    /\ UNCHANGED <<rp, rpcall, rt, fc, asm, jd, call, pre, hist, ksio, qn, util, drv, ndm,
                   mark, found>>

\* lines 101-128: the multigrid object and the problem over all levels
TopoFinish ==
    /\ topo.pc = "loop"
    /\ ~(topo.i < LevelsToAdd(topo.nlevels))
    /\ topo' = [topo EXCEPT !.pc = "done", !.mg = <<Len(topo.assemblers)>>]
    /\ UNCHANGED <<rp, rpcall, rt, fc, asm, jd, call, pre, hist, ksio, qn, util, drv, ndm,
                   mark, found>>

\* a createTopoProblem call about to start
InitTopo(levels, orders, lowests, reps) ==
    topo \in {[pc |-> "start", nlevels |-> n, order0 |-> o, lowest_order |-> lo,
               repartition |-> r, i |-> 0, ncallbacks |-> 0, forests |-> <<>>,
               filters |-> <<>>, assemblers |-> <<>>, mg |-> <<>>] :
                n \in levels, o \in orders, lo \in lowests, r \in reps}

NextTopo == TopoFinest \/ TopoCoarser \/ TopoFinish

-----------------------------------------------------------------------------
(* The helpers of TopOptUtils.py that validate their arguments *)

\* most keyword arguments in one call
MaxKwargs == 2
\* most variables per node of an assembler or a vector
MaxVarsPerNode == 2

\* lines 329-345: the options addNaturalFrequencyConstraint knows
OptKeys == {"use_jd", "num_eigs", "ks_weight", "offset", "sigma", "scale",
            "max_lanczos", "tol", "eig_tol", "eig_rtol", "eig_atol",
            "num_recycle", "fgmres_size", "max_jd_size", "recycle_type"}

\* an option is at its default or holds the value given for it
DefaultOpts == [k \in OptKeys |-> <<"default">>]

\* lines 361-375: the options read for the Jacobi-Davidson call
JDArgs == <<"recycle_type", "sigma", "num_eigs", "ks_weight", "offset", "scale",
            "max_jd_size", "eig_tol", "use_jd", "fgmres_size", "eig_rtol",
            "eig_atol", "num_recycle">>

\* lines 377-392: the options read for the Lanczos call
LanczosArgs == <<"sigma", "num_eigs", "ks_weight", "offset", "scale",
                 "max_lanczos", "tol", "track_eigen_iters">>

\* the keywords a caller may pass: known ones, a misspelt one, and the one
\* the Lanczos call reads
KwargKeys == {"use_jd", "num_eigs", "num_eig", "track_eigen_iters"}

KwargValues(key) == IF key = "use_jd" THEN BOOLEAN ELSE {1}

\* the pairs of a keyword and a value for it
KwargPairs == UNION {{<<k, v>> : v \in KwargValues(k)} : k \in KwargKeys}

\* keyword arguments: pairs of key and value, the keys distinct, in the
\* order passed
Kwargs ==
    {kw \in UNION {[1 .. n -> KwargPairs] : n \in 0 .. MaxKwargs} :
        \A i, j \in 1 .. Len(kw) : i # j => kw[i][1] # kw[j][1]}

RECURSIVE ApplyOptionsIgnoreUnknown(_, _)
\* a plausible slip: unknown keywords skipped
ApplyOptionsIgnoreUnknown(opts, kwargs) ==
    IF kwargs = <<>> THEN [opts |-> opts, raised |-> "none"]
    ELSE IF kwargs[1][1] \in DOMAIN opts
         THEN ApplyOptionsIgnoreUnknown(
                 [opts EXCEPT ![kwargs[1][1]] = <<"given", kwargs[1][2]>>], Tail(kwargs))
         ELSE ApplyOptionsIgnoreUnknown(opts, Tail(kwargs))

RECURSIVE ApplyOptions(_, _)
\* lines 348-352: the keywords applied in order, up to the first unknown one
ApplyOptions(opts, kwargs) ==
    IF kwargs = <<>> THEN [opts |-> opts, raised |-> "none"]
    ELSE IF kwargs[1][1] \in DOMAIN opts
         THEN ApplyOptions([opts EXCEPT ![kwargs[1][1]] = <<"given", kwargs[1][2]>>],
                           Tail(kwargs))
         ELSE [opts |-> opts, raised |-> "ValueError"]

\* opts["use_jd"], True by default
UseJD(opts) ==
    IF opts["use_jd"] = <<"default">> THEN TRUE ELSE opts["use_jd"][2]

\* the arguments of a call are read from opts before the call is made; a key
\* opts does not have raises KeyError
ReadOpts(opts, keys) ==
    IF \A i \in 1 .. Len(keys) : keys[i] \in DOMAIN opts
    THEN [raised |-> "none", args |-> [i \in 1 .. Len(keys) |-> opts[keys[i]]]]
    ELSE [raised |-> "KeyError", args |-> <<>>]

\* lines 310-394; problem is the list of frequency constraints added to it
addNaturalFrequencyConstraint(problem, kwargs) ==
    LET a == ApplyOptions(DefaultOpts, kwargs)
        r == ReadOpts(a.opts, IF UseJD(a.opts) THEN JDArgs ELSE LanczosArgs)
    IN IF a.raised # "none"
       THEN [raised |-> a.raised, problem |-> problem]
       ELSE IF r.raised # "none"
            THEN [raised |-> r.raised, problem |-> problem]
            ELSE [raised |-> "none",
                  problem |-> Append(problem, [use_jd |-> UseJD(a.opts),
                                               args |-> r.args])]

AddFrequency(kwargs) ==
    /\ util.freq = <<>>
    /\ util' = [util EXCEPT !.freq =
                  <<[kwargs |-> kwargs, before |-> <<>>,
                     out |-> addNaturalFrequencyConstraint(<<>>, kwargs)]>>]
    /\ UNCHANGED <<rp, rpcall, rt, fc, asm, jd, call, pre, hist, ksio, qn, topo, drv, ndm,
                   mark, found>>

\* a plausible slip: a point force with entries to spare accepted
PointForceFitsIfLong(vars_per_node, point_force) ==
    vars_per_node <= Len(point_force)

\* lines 148-149
PointForceFits(vars_per_node, point_force) ==
    ~(vars_per_node # Len(point_force))

\* lines 131-170; the vectors created by the call are counted, and the force
\* holds point_force at the one vertex node there is
computeVertexLoad(vars_per_node, point_force) ==
    IF ~PointForceFits(vars_per_node, point_force)
    THEN [raised |-> "ValueError", created |-> 0, force |-> <<>>]
    ELSE [raised |-> "none", created |-> 1,
          force |-> [k \in 1 .. vars_per_node |-> point_force[k]]]

VertexLoad(vars_per_node, point_force) ==
    /\ util.load = <<>>
    /\ util' = [util EXCEPT !.load =
                  <<[vars_per_node |-> vars_per_node, point_force |-> point_force,
                     out |-> computeVertexLoad(vars_per_node, point_force)]>>]
    /\ UNCHANGED <<rp, rpcall, rt, fc, asm, jd, call, pre, hist, ksio, qn, topo, drv, ndm,
                   mark, found>>

\* a design vector: made by a TopoProblem or not, its variables per node and
\* the value it holds at every node
DesignVec(tmr, vars_per_node, x) ==
    [tmr |-> tmr, vars_per_node |-> vars_per_node, x |-> x]

\* TMR.convertPVecToVec: None for a vector no TopoProblem made
convertPVecToVec(vec) == IF vec.tmr THEN <<vec>> ELSE None

\* lines 270-307; the interpolation of a constant field is that constant
interpolateDesignVec(orig_vec, new_vec) ==
    LET orig_x == convertPVecToVec(orig_vec)
        new_x == convertPVecToVec(new_vec)
    IN IF orig_x = None
       THEN [raised |-> "ValueError", interps |-> 0, new_vec |-> new_vec]
       ELSE IF new_x = None
       THEN [raised |-> "ValueError", interps |-> 0, new_vec |-> new_vec]
       ELSE IF orig_x[1].vars_per_node # new_x[1].vars_per_node
       THEN [raised |-> "ValueError", interps |-> 0, new_vec |-> new_vec]
       ELSE [raised |-> "none", interps |-> 1,
             new_vec |-> [new_vec EXCEPT !.x = orig_x[1].x]]

Interpolate(orig_vec, new_vec) ==
    /\ util.interp = <<>>
    /\ util' = [util EXCEPT !.interp =
                  <<[orig_vec |-> orig_vec, new_vec |-> new_vec,
                     out |-> interpolateDesignVec(orig_vec, new_vec)]>>]
    /\ UNCHANGED <<rp, rpcall, rt, fc, asm, jd, call, pre, hist, ksio, qn, topo, drv, ndm,
                   mark, found>>

\* none of the helpers called yet
InitUtil == util = [freq |-> <<>>, load |-> <<>>, interp |-> <<>>]

NextUtil ==
    \/ \E kwargs \in Kwargs : AddFrequency(kwargs)
    \/ \E vars_per_node \in 1 .. MaxVarsPerNode :
          \E point_force \in UNION {[1 .. n -> {1}] : n \in 0 .. MaxVarsPerNode} :
             VertexLoad(vars_per_node, point_force)
    \/ \E ot, nt \in BOOLEAN : \E ov, nv \in 1 .. MaxVarsPerNode :
          Interpolate(DesignVec(ot, ov, 1), DesignVec(nt, nv, 0))

-----------------------------------------------------------------------------
(* The non-design blocks: addNonDesignMat, computeNonDesignMat and *)
(* GeneralEigSolver.compute                                            *)

\* dv_one: 1.0 at the indices given, 0 elsewhere (all 0 for an empty list)
DvOne(indices) ==
    [j \in DVIdx |-> IF \E i \in 1 .. Len(indices) : indices[i] = j THEN 1 ELSE 0]

\* a plausible slip: the backup read after the overwrite
NonDesignSetsBackupLate(dv, indices) == <<DvOne(indices), DvOne(indices)>>

\* the densities set on an assembler holding dv while the non-design blocks
\* are assembled: setDesignVars(dv_one), then setDesignVars(dv_backup)
NonDesignSets(dv, indices) == <<DvOne(indices), dv>>

\* the matrices of a density vector, by its total density
StiffnessOf(dv) == StiffnessMat(IntSum(dv, DVIdx))

MassOf(dv) == MassMat(IntSum(dv, DVIdx))

\* FrequencyConstr.addNonDesignMat on the matrices assembled at density rho
AddNonDesign(rho) ==
    /\ ndm.op = "none"
    /\ LET self == computeNonDesignMat(fc)
           mmat == MassMat(rho)
           kmat == StiffnessMat(rho)
       IN ndm' = [op |-> "addNonDesignMat",
                  args |-> [mmat |-> mmat, kmat |-> kmat,
                            m0mat |-> self.m0mat, k0mat |-> self.k0mat],
                  out |-> addNonDesignMat(self, mmat, kmat)]
    /\ UNCHANGED <<rp, rpcall, rt, fc, asm, jd, call, pre, hist, ksio, qn, topo, util,
                   drv, mark, found>>

\* FrequencyConstr.computeNonDesignMat(indices, mscale, kscale) on an
\* assembler holding dv
ComputeNonDesign(dv, indices) ==
    /\ ndm.op = "none"
    /\ LET sets == NonDesignSets(dv, indices)
       IN ndm' = [op |-> "computeNonDesignMat",
                  args |-> [dv |-> dv, indices |-> indices],
                  out |-> [m0mat |-> MatScale(MassOf(sets[1]), mscale),
                           k0mat |-> MatScale(StiffnessOf(sets[1]), kscale),
                           sets |-> sets, dv |-> sets[Len(sets)]]]
    /\ UNCHANGED <<rp, rpcall, rt, fc, asm, jd, call, pre, hist, ksio, qn, topo, util,
                   drv, mark, found>>

\* GeneralEigSolver.compute(x, add_non_design_mass, non_design_mass_indices,
\* mscale, kscale) with nconvd eigenpairs converging
GesCompute(x, add_nd, indices, nconvd) ==
    /\ ndm.op = "none"
    /\ LET rho == ApplyFilter(x)
           k1 == StiffnessOf(rho)
           m1 == MassOf(rho)
           sets == <<rho>> \o (IF add_nd THEN NonDesignSets(rho, indices) ELSE <<>>)
           dv == sets[Len(sets)]
           kmat == IF add_nd
                   THEN ApplyMatBCs(MatAxpy(k1, 1, MatScale(StiffnessOf(sets[2]), kscale)))
                   ELSE k1
           mmat == IF add_nd
                   THEN ApplyMatBCs(MatAxpy(m1, 1, MatScale(MassOf(sets[2]), mscale)))
                   ELSE m1
       IN ndm' = [op |-> "compute",
                  args |-> [x |-> x, add_non_design_mass |-> add_nd, indices |-> indices],
                  out |-> [rho |-> rho, sets |-> sets, dv |-> dv,
                           kmat |-> kmat, mmat |-> mmat,
                           mg |-> StiffnessOf(dv),
                           raised |-> IF nconvd >= NumEig THEN "none"
                                      ELSE "AssertionError",
                           evals |-> IF nconvd >= NumEig
                                     THEN [i \in 1 .. NumEig |->
                                             [k |-> kmat.d[i], m |-> mmat.d[i]]]
                                     ELSE <<>>]]
    /\ UNCHANGED <<rp, rpcall, rt, fc, asm, jd, call, pre, hist, ksio, qn, topo, util,
                   drv, mark, found>>

\* none of the operations made yet; a behaviour makes one of them
InitNonDesign == ndm = [op |-> "none", args |-> <<>>, out |-> <<>>]

NextRestoring ==
    \/ \E dv \in FullVecs, indices \in FixedLists : ComputeNonDesign(dv, indices)
    \/ \E x \in FullVecs, add_nd \in BOOLEAN, indices \in FixedLists,
          nconvd \in {NumEig - 1, NumEig} :
             GesCompute(x, add_nd, indices, nconvd)

NextNonDesign ==
    \/ \E rho \in 0 .. MaxRho : AddNonDesign(rho)
    \/ NextRestoring

-----------------------------------------------------------------------------
(* densityBasedRefine (TopOptUtils.py) *)

\* most elements of the assembler
MaxElems == 1
\* nodes of an element
ElemNodes == 1 .. 2
\* the densities a design variable takes, and the limits lower and upper
Densities == {0, 1, 2}
\* <<lower, upper>>: apart, equal, and crossed
RefineLimits == {<<0, 2>>, <<1, 1>>, <<2, 0>>}

\* the design variables of an element with dpn variables at each node
ElemDvs(dpn) == [1 .. (dpn * Cardinality(ElemNodes)) -> Densities]

\* dvs[index::dvs_per_node], as the set of its values
Slice(dvs, index, dpn) ==
    {dvs[k] : k \in {k \in 1 .. Len(dvs) : k - 1 >= index /\ (k - 1 - index) % dpn = 0}}

\* np.max and np.min of a slice
SliceMax(S) == CHOOSE x \in S : \A y \in S : y <= x
SliceMin(S) == CHOOSE x \in S : \A y \in S : x <= y

\* a plausible slip: the largest value used in the reversed scheme too
RefineValueAlwaysMax(dvs, index, dpn, reverse) == SliceMax(Slice(dvs, index, dpn))

\* lines 442 and 448: np.min or np.max of the slice
RefineValue(dvs, index, dpn, reverse) ==
    IF reverse THEN SliceMin(Slice(dvs, index, dpn))
    ELSE SliceMax(Slice(dvs, index, dpn))

\* lines 441-452: the mark of one element (refine starts as zeros)
RefineMark(dvs, index, dpn, lower, upper, reverse) ==
    LET value == RefineValue(dvs, index, dpn, reverse)
    IN IF reverse
       THEN IF value >= upper THEN -1
            ELSE IF value <= lower THEN 1
            ELSE 0
       ELSE IF value >= upper THEN 1
            ELSE IF value <= lower THEN -1
            ELSE 0

\* lines 428-457: the marks of all elements, and the calls made on the forest
densityBasedRefine(elems, index, dpn, lower, upper, reverse, min_lev, max_lev) ==
    LET refine == [i \in 1 .. Len(elems) |->
                     RefineMark(elems[i], index, dpn, lower, upper, reverse)]
    IN [refine |-> refine,
        calls |-> <<[op |-> "refine", refine |-> refine,
                     min_lev |-> min_lev, max_lev |-> max_lev]>>]

DensityRefine ==
    /\ mark.stage = "given"
    /\ mark' = [mark EXCEPT
                  !.stage = "refined",
                  !.out = <<densityBasedRefine(mark.elems, mark.index, mark.dpn,
                                               mark.lower, mark.upper, mark.reverse,
                                               mark.min_lev, mark.max_lev)>>]
    /\ UNCHANGED <<rp, rpcall, rt, fc, asm, jd, call, pre, hist, ksio, qn, topo, util,
                   drv, ndm, found>>

\* a densityBasedRefine call about to be made
InitMark(counts, dpns, limits, reverses, min_levs) ==
    \E d \in dpns, n \in counts :
       \E e \in [1 .. n -> ElemDvs(d)], i \in 0 .. (d - 1), l \in limits,
          r \in reverses, lv \in min_levs :
          mark = [stage |-> "given", elems |-> e, index |-> i, dpn |-> d,
                  lower |-> l[1], upper |-> l[2], reverse |-> r,
                  min_lev |-> lv, max_lev |-> lv + 1, out |-> <<>>]

NextMark == DensityRefine

-----------------------------------------------------------------------------
(* find_indices (refactor_utils_freq.py) *)

\* most local nodes of the forest on this processor
MaxNodes == 2
\* node locations; lengths are in units of len0
Points == {<<0, 0, 0>>, <<1, 0, 1>>, <<2, 1, 0>>}
\* the values a caller passes for a maximum: omitted, or a number
PassedMax == {None, <<0>>, <<1>>}

\* what "not xmax" of lines 1232-1237 tests: None and 0.0 are both falsy
Falsy(v) == v = None \/ v[1] = 0

\* lines 1232-1237: if not xmax: xmax = lx
OrDefault(v, length) == IF Falsy(v) THEN length ELSE v[1]

\* lines 1225-1230: the domain lengths lx, ly, lz
DomainLengths(domain, len0, AR, ratio) ==
    <<len0 * AR, IF domain = "lbracket" THEN len0 * ratio ELSE len0, len0>>

RECURSIVE FindFrom(_, _, _, _, _)
\* lines 1255-1260: the loop over positions i (counted from 0) up to n_local_nodes
FindFrom(Xpts, i, offset, lo, hi) ==
    IF i >= Len(Xpts) THEN <<>>
    ELSE LET X == Xpts[i + 1]
             inside == /\ lo[1] <= X[1] /\ X[1] <= hi[1]
                       /\ lo[2] <= X[2] /\ X[2] <= hi[2]
                       /\ lo[3] <= X[3] /\ X[3] <= hi[3]
         IN (IF inside THEN <<i - offset>> ELSE <<>>)
            \o FindFrom(Xpts, i + 1, offset, lo, hi)

\* lines 1205-1262
find_indices(forest, domain, len0, AR, ratio, mins, maxs) ==
    LET len == DomainLengths(domain, len0, AR, ratio)
        hi == [d \in 1 .. 3 |-> OrDefault(maxs[d], len[d])]
        offset == forest.n_ext_pre
    IN FindFrom(forest.Xpts, offset, offset, mins, hi)

FindIndices ==
    /\ found.stage = "given"
    /\ found' = [found EXCEPT
                   !.stage = "found",
                   !.indices = find_indices(found.forest, found.domain, found.len0,
                                            found.AR, found.ratio, found.mins,
                                            found.maxs)]
    /\ UNCHANGED <<rp, rpcall, rt, fc, asm, jd, call, pre, hist, ksio, qn, topo, util,
                   drv, ndm, mark>>

\* the local nodes of a forest: those owned by lower ranks, then the owned
\* ones, then those owned by higher ranks
LocalForests(counts) ==
    UNION {UNION {{[Xpts |-> X, n_ext_pre |-> a, n_ext_post |-> b] :
                      X \in [1 .. n -> Points], b \in 0 .. (n - a)} :
                  a \in 0 .. n} : n \in counts}

\* a find_indices call about to be made
InitFound(counts, domains, ARs, xmins, passed) ==
    \E f \in LocalForests(counts), d \in domains, ar \in ARs, x \in xmins,
       m \in [1 .. 3 -> passed] :
       found = [stage |-> "given", forest |-> f, domain |-> d, len0 |-> 1, AR |-> ar,
                ratio |-> 2, mins |-> <<x, 0, 0>>, maxs |-> m, indices |-> <<>>]

NextFound == FindIndices

-----------------------------------------------------------------------------
(* The refinement drivers: the loops of comp-min.py and bernstein.py *)

\* most refinement steps (--n-mesh-refine, len(mg_levels))
MaxRefine == 3
\* largest iteration budget (--max-iter, --niter-finest, max_opt_iters)
MaxIterBudget == 2
\* x_init[:] = 0.95, in hundredths
InitDensity == 95

\* --optimizer
Optimizers == {"paropt", "snopt", "ipopt", "mma", "mma4py"}
\* the densities an optimizer may return, in hundredths
Optima == {20, 80}

\* the arguments of a comp-min.py run
CompMinArgs ==
    {[driver |-> "comp-min", optimizer |-> o, max_iterations |-> n, max_iter |-> m,
      niter_finest |-> f, gradient_check |-> g, max_opt_iters |-> <<>>] :
        o \in Optimizers, n \in 0 .. MaxRefine, m \in 1 .. MaxIterBudget,
        f \in 1 .. MaxIterBudget, g \in BOOLEAN}

\* the arguments of a bernstein.py run: one iteration budget per step
BernsteinArgs ==
    {[driver |-> "bernstein", optimizer |-> "TopologyOptimizer",
      max_iterations |-> Len(b), max_iter |-> 0, niter_finest |-> 0,
      gradient_check |-> FALSE, max_opt_iters |-> b] :
        b \in UNION {[1 .. n -> 1 .. MaxIterBudget] : n \in 0 .. MaxRefine}}

\* forest objects are kept in a heap; gen counts the refinements applied to
\* the object's mesh
Duplicate(heap, id) == Append(heap, [gen |-> heap[id].gen])

Refine(heap, id) == [heap EXCEPT ![id].gen = @ + 1]

\* a plausible slip: the filter is the analysis forest itself
FilterForestShared(heap, forest) == [heap |-> heap, filter |-> forest]

\* the creator callback gives the filter a forest of its own (bernstein.py
\* lines 29-33: another order and interpolation than the analysis forest)
FilterForest(heap, forest) ==
    [heap |-> Duplicate(heap, forest), filter |-> Len(heap) + 1]

\* comp-min.py line 202
IterOffset(step, max_iter) == step * max_iter

\* comp-min.py lines 200-232, bernstein.py lines 223-230: the problem of the
\* step on the forest, with its filter
DrvBuild ==
    /\ drv.pc = "loop"
    /\ drv.step < drv.args.max_iterations
    /\ LET c == drv.args.driver = "comp-min"
           f == FilterForest(drv.heap, drv.forest)
           problem == [forest |-> drv.forest, filter |-> f.filter, init |-> None,
                       iter_offset |-> IF c THEN IterOffset(drv.step, drv.args.max_iter)
                                       ELSE 0,
                       counter |-> IF c THEN drv.count ELSE 0]
       IN drv' = [drv EXCEPT
                    !.pc = IF drv.args.gradient_check THEN "exit" ELSE "interpolate",
                    !.heap = f.heap,
                    !.problem = <<problem>>,
                    !.x_init = None,
                    !.log = Append(@, [step |-> drv.step, problem |-> problem,
                                       forest_gen |-> drv.heap[drv.forest].gen,
                                       filter_gen |-> f.heap[f.filter].gen,
                                       interp |-> None, start |-> None, ran |-> FALSE,
                                       budget |-> 0, xopt |-> None,
                                       refined |-> None, events |-> <<>>])]
    /\ UNCHANGED <<rp, rpcall, rt, fc, asm, jd, call, pre, hist, ksio, qn, topo, util,
                   ndm, mark, found>>

\* x = problem.createDesignVec(); interpolateDesignVec(orig_filter, xopt, filtr, x)
InterpolateOptimum(d) ==
    interpolateDesignVec(d.xopt[1], DesignVec(TRUE, 1, 0)).new_vec

\* comp-min.py lines 255-256, 399, 418
FinalBudget(args, step) ==
    args.max_iterations > 1 /\ step = args.max_iterations - 1

\* comp-min.py lines 234-259, bernstein.py lines 232-242: the optimum of the
\* step before on the new filter, and the iteration budget
DrvInterpolate ==
    /\ drv.pc = "interpolate"
    /\ LET a == drv.args
           k == drv.step + 1
           filtr == drv.problem[1].filter
           has == drv.orig_filter # None
           x == InterpolateOptimum(drv)
           sets == a.driver = "bernstein" \/ a.optimizer \in {"paropt", "mma"}
           final == a.driver = "comp-min" /\ FinalBudget(a, drv.step)
       IN drv' = [drv EXCEPT
                    !.pc = "optimize",
                    !.problem[1].init = IF has /\ sets THEN <<x>> ELSE @,
                    !.x_init = IF sets THEN None
                               ELSE IF has THEN <<x>>
                               ELSE <<DesignVec(TRUE, 1, InitDensity)>>,
                    !.orig_filter = <<filtr>>,
                    !.tr_max_iterations = IF final THEN a.niter_finest ELSE @,
                    !.mma_max_iterations = IF final THEN a.niter_finest ELSE @,
                    !.maxiter = IF a.driver = "bernstein" THEN a.max_opt_iters[k] ELSE @,
                    !.count = IF a.driver = "comp-min" THEN @ + a.max_iter ELSE @,
                    !.log[k].interp =
                        IF has THEN <<[from |-> drv.orig_filter[1], to |-> filtr,
                                       from_gen |-> drv.heap[drv.orig_filter[1]].gen,
                                       src |-> drv.xopt[1], out |-> x]>>
                        ELSE None]
    /\ UNCHANGED <<rp, rpcall, rt, fc, asm, jd, call, pre, hist, ksio, qn, topo, util,
                   ndm, mark, found>>

\* the design the optimizer of the step starts from (None: the problem's own
\* initial design) and its iteration budget
OptimizerRun(d) ==
    LET a == d.args
    IN CASE a.optimizer = "mma4py" ->
               \* lines 291-295, 316: getVarsAndBounds, optimize(args.max_iter)
               [start |-> <<DesignVec(TRUE, 1, InitDensity)>>, budget |-> a.max_iter]
         [] a.optimizer \in {"snopt", "ipopt"} ->
               \* lines 371-373, 399-404, 418-421
               [start |-> d.x_init,
                budget |-> IF FinalBudget(a, d.step) THEN a.niter_finest ELSE a.max_iter]
         [] a.optimizer = "mma" ->
               \* line 461
               [start |-> d.problem[1].init, budget |-> d.mma_max_iterations]
         [] a.optimizer = "paropt" ->
               \* line 463
               [start |-> d.problem[1].init, budget |-> d.tr_max_iterations]
         [] OTHER ->
               \* bernstein.py line 245
               [start |-> d.problem[1].init, budget |-> d.maxiter]

\* comp-min.py lines 271-497, bernstein.py lines 245-246: the optimizer of the
\* step, returning the optimum xval
DrvOptimize(xval) ==
    /\ drv.pc = "optimize"
    /\ LET r == OptimizerRun(drv)
           k == drv.step + 1
       IN drv' = [drv EXCEPT !.pc = "refine",
                             !.xopt = <<DesignVec(TRUE, 1, xval)>>,
                             !.log[k].start = r.start,
                             !.log[k].budget = r.budget,
                             !.log[k].ran = TRUE,
                             !.log[k].xopt = <<DesignVec(TRUE, 1, xval)>>]
    /\ UNCHANGED <<rp, rpcall, rt, fc, asm, jd, call, pre, hist, ksio, qn, topo, util,
                   ndm, mark, found>>

\* a plausible slip: the last step refined as well
RefineStepAlways(args, step) == TRUE

\* comp-min.py line 580
RefineStep(args, step) == step # args.max_iterations - 1

\* comp-min.py lines 575-603: a duplicate of the forest, refined, balanced and
\* repartitioned unless the step is the last; bernstein.py lines 248-272: the
\* forest itself refined
DrvRefine ==
    /\ drv.pc = "refine"
    /\ LET a == drv.args
           k == drv.step + 1
           dup == Duplicate(drv.heap, drv.forest)
           new == Len(drv.heap) + 1
       IN drv' =
            IF a.driver = "comp-min"
            THEN IF RefineStep(a, drv.step)
                 THEN [drv EXCEPT !.pc = "loop", !.step = @ + 1, !.forest = new,
                                  !.heap = Refine(dup, new),
                                  !.log[k].refined = <<new>>,
                                  !.log[k].events = <<"duplicate", "refine", "balance",
                                                      "repartition">>]
                 ELSE [drv EXCEPT !.pc = "loop", !.step = @ + 1, !.forest = new,
                                  !.heap = dup,
                                  !.log[k].events = <<"duplicate">>]
            ELSE [drv EXCEPT !.pc = "loop", !.step = @ + 1,
                             !.heap = Refine(drv.heap, drv.forest),
                             !.log[k].refined = <<drv.forest>>,
                             !.log[k].events = <<"refine">>]
    /\ UNCHANGED <<rp, rpcall, rt, fc, asm, jd, call, pre, hist, ksio, qn, topo, util,
                   ndm, mark, found>>

\* the loop over the steps is over
DrvDone ==
    /\ drv.pc = "loop"
    /\ ~(drv.step < drv.args.max_iterations)
    /\ drv' = [drv EXCEPT !.pc = "done"]
    /\ UNCHANGED <<rp, rpcall, rt, fc, asm, jd, call, pre, hist, ksio, qn, topo, util,
                   ndm, mark, found>>

\* a driver about to enter its loop (comp-min.py lines 159, 185, 192-199;
\* bernstein.py lines 216-221)
InitDriver(argsets) ==
    drv \in {[args |-> a, pc |-> "loop", step |-> 0, count |-> 0, forest |-> 1,
              heap |-> <<[gen |-> 0]>>, orig_filter |-> None, xopt |-> None,
              x_init |-> None, problem |-> None, maxiter |-> 0,
              tr_max_iterations |-> a.max_iter, mma_max_iterations |-> a.max_iter,
              log |-> <<>>] : a \in argsets}

NextDriver ==
    \/ DrvBuild
    \/ DrvInterpolate
    \/ \E xval \in Optima : DrvOptimize(xval)
    \/ DrvRefine
    \/ DrvDone

\* the variables of the later sections, at rest
InitRest ==
    InitDriver({[driver |-> "comp-min", optimizer |-> "paropt", max_iterations |-> 0,
                 max_iter |-> 1, niter_finest |-> 1, gradient_check |-> FALSE,
                 max_opt_iters |-> <<>>]})
    /\ InitNonDesign
    /\ InitMark({0}, {1}, {<<0, 2>>}, {FALSE}, {0})
    /\ InitFound({0}, {"cantilever"}, {1}, {0}, {None})

-----------------------------------------------------------------------------
(* Specifications *)

InitReduced(fixedSet, vals, everys, qns) ==
    /\ rp \in {RPConstruct(f, v, e, q) :
                 f \in fixedSet, v \in vals, e \in everys, q \in qns}
    /\ rpcall = [op |-> "none", x |-> <<>>, passed |-> None, out |-> <<>>,
                 returned |-> FALSE, completed |-> 0]
    /\ rt = [stage |-> "start", r |-> <<>>, fixed_val |-> None,
             DV |-> [i \in DVIdx |-> 0], r2 |-> <<>>]

InitConstraint(lambdas, scales, nds, rhos) ==
    /\ fc \in {FCConstruct(l, s, nd) : l \in lambdas, s \in scales, nd \in nds}
    /\ asm \in {[dv |-> r, vars |-> ZeroVec] : r \in rhos}
    /\ jd = [nconvd |-> 0, recycle |-> 0, vals |-> <<>>, vecs |-> <<>>]
    /\ call = IdleCall("none", <<>>)
    /\ pre = fc
    /\ hist = [ncalls |-> 0, nalloc |-> 0, nbuild |-> 0, first |-> <<>>,
               failed |-> <<>>, files |-> {}, prev |-> <<>>, last |-> <<>>]

NextReduced ==
    \/ \E x \in ReducedVecs(rp.nvars), res \in ProbResults, raises \in BOOLEAN :
          evalObjCon(x, res, raises)
    \/ \E x \in ReducedVecs(rp.nvars), gfull \in QnFull : evalObjConGradient(x, gfull)
    \/ \E z \in 0 .. 1, s \in QnInputs(rp.nvars), y \in QnInputs(rp.nvars) :
          computeQuasiNewtonUpdateCorrection(z, s, y)

NextRoundTrip ==
    \/ \E r \in ReducedVecs(rp.nvars), DV \in FullVecs,
          fv \in {None} \cup {<<v>> : v \in DVValues} : RTExpand(r, DV, fv)
    \/ \E r2 \in QnInputs(rp.nvars) : RTReduce(r2)

NextConstraint ==
    \/ \E fltr \in Objects, mg \in Objects :
          \* the objects the first call passes are the ones named 1
          /\ (hist.ncalls = 0 => fltr = 1 /\ mg = 1)
          /\ ConstraintEnter(fltr, mg)
    \/ \E nconvd \in 0 .. fc.num_eigenvalues, err \in RitzErrs :
          JDSolveFirst(nconvd, err)
    \/ PrepareRerun
    \/ \E nconvd \in 0 .. fc.num_eigenvalues, err \in RitzErrs :
          JDSolveRerun(nconvd, err)
    \/ ConstraintFail
    \/ ConstraintFinish
    \/ ConstraintGradient
    \/ \E rho \in 0 .. MaxRho : SetDesignVars(rho)

\* the components a specification leaves alone, as constructed
InitOthers ==
    /\ InitKS({<<0>>}, {1}, {1})
    /\ InitQn
    /\ InitTopo({1}, {2}, {2}, {TRUE})
    /\ InitUtil
    /\ InitRest

NextKS == KSApply

\* the ReducedProblem under any sequence of optimizer callbacks
InitSpecReduced ==
    /\ InitReduced(FixedLists, DVValues, 1 .. MaxSnapEvery, BOOLEAN)
    /\ InitConstraint({1}, {1}, {TRUE}, {1})
    /\ InitOthers

SpecReduced == InitSpecReduced /\ [][NextReduced]_vars

\* one reduDVtoDV / DVtoreduDV round trip on arbitrary inputs
InitSpecRoundTrip ==
    /\ InitReduced(FixedLists, DVValues, {1}, {FALSE})
    /\ InitConstraint({1}, {1}, {TRUE}, {1})
    /\ InitOthers

SpecRoundTrip == InitSpecRoundTrip /\ [][NextRoundTrip]_vars

\* a FrequencyConstr under any sequence of constraint evaluations
InitSpecConstraint ==
    /\ InitReduced({<<>>}, {1}, {1}, {FALSE})
    /\ InitConstraint(Lambdas, EigScales, BOOLEAN, {1})
    /\ InitOthers

SpecConstraint == InitSpecConstraint /\ [][NextConstraint]_vars

\* the KS aggregation applied once to arbitrary eigenvalues
InitSpecKS ==
    /\ InitReduced({<<>>}, {1}, {1}, {FALSE})
    /\ InitConstraint({1}, {1}, {TRUE}, {1})
    /\ InitKS([1 .. NumEig -> KSEigVals], 1 .. MaxKsrho, KSScales)
    /\ InitQn
    /\ InitTopo({1}, {2}, {2}, {TRUE})
    /\ InitUtil
    /\ InitRest

SpecKS == InitSpecKS /\ [][NextKS]_vars

NextQn ==
    \E z \in QnMultipliers, s \in QnStepVecs(rp.nvars),
       y \in QnInputs(rp.nvars), dt \in QnDurations :
          QnThroughAdapter(z, s, y, dt)

\* curvature corrections through the adapter after one constraint evaluation
InitSpecQn ==
    /\ InitReduced(FixedLists, {1}, {1}, {TRUE})
    /\ InitEvaluated({1}, EigScales, {FALSE}, QnRhos)
    /\ InitKS({<<0>>}, {1}, {1})
    /\ InitQn
    /\ InitTopo({1}, {2}, {2}, {TRUE})
    /\ InitUtil
    /\ InitRest

SpecQn == InitSpecQn /\ [][NextQn]_vars

\* one createTopoProblem call
InitSpecTopo ==
    /\ InitReduced({<<>>}, {1}, {1}, {FALSE})
    /\ InitConstraint({1}, {1}, {TRUE}, {1})
    /\ InitKS({<<0>>}, {1}, {1})
    /\ InitQn
    /\ InitTopo(0 .. MaxLevels, MeshOrders, MeshOrders, BOOLEAN)
    /\ InitUtil
    /\ InitRest

SpecTopo == InitSpecTopo /\ [][NextTopo]_vars

\* one call of each helper
InitSpecUtil ==
    /\ InitReduced({<<>>}, {1}, {1}, {FALSE})
    /\ InitConstraint({1}, {1}, {TRUE}, {1})
    /\ InitKS({<<0>>}, {1}, {1})
    /\ InitQn
    /\ InitTopo({1}, {2}, {2}, {TRUE})
    /\ InitUtil
    /\ InitRest

SpecUtil == InitSpecUtil /\ [][NextUtil]_vars

\* one run of a refinement driver
InitSpecDriver ==
    /\ InitReduced({<<>>}, {1}, {1}, {FALSE})
    /\ InitConstraint({1}, {1}, {TRUE}, {1})
    /\ InitKS({<<0>>}, {1}, {1})
    /\ InitQn
    /\ InitTopo({1}, {2}, {2}, {TRUE})
    /\ InitUtil
    /\ InitDriver(CompMinArgs \cup BernsteinArgs)
    /\ InitNonDesign
    /\ InitMark({0}, {1}, {<<0, 2>>}, {FALSE}, {0})
    /\ InitFound({0}, {"cantilever"}, {1}, {0}, {None})

SpecDriver == InitSpecDriver /\ [][NextDriver]_vars

\* the non-design operations of a FrequencyConstr, one after another
InitSpecNonDesign ==
    /\ InitReduced({<<>>}, {1}, {1}, {FALSE})
    /\ InitConstraint(Lambdas, EigScales, {TRUE}, {1})
    /\ InitKS({<<0>>}, {1}, {1})
    /\ InitQn
    /\ InitTopo({1}, {2}, {2}, {TRUE})
    /\ InitUtil
    /\ InitRest

SpecNonDesign == InitSpecNonDesign /\ [][NextNonDesign]_vars

InitSpecMark ==
    /\ InitReduced({<<>>}, {1}, {1}, {FALSE})
    /\ InitConstraint({1}, {1}, {TRUE}, {1})
    /\ InitKS({<<0>>}, {1}, {1})
    /\ InitQn
    /\ InitTopo({1}, {2}, {2}, {TRUE})
    /\ InitUtil
    /\ InitDriver({[driver |-> "comp-min", optimizer |-> "paropt", max_iterations |-> 0,
                    max_iter |-> 1, niter_finest |-> 1, gradient_check |-> FALSE,
                    max_opt_iters |-> <<>>]})
    /\ InitNonDesign
    /\ InitMark(1 .. MaxElems, {1, 2}, RefineLimits, BOOLEAN, {0, 1})
    /\ InitFound({0}, {"cantilever"}, {1}, {0}, {None})

SpecMark == InitSpecMark /\ [][NextMark]_vars

InitSpecFound ==
    /\ InitReduced({<<>>}, {1}, {1}, {FALSE})
    /\ InitConstraint({1}, {1}, {TRUE}, {1})
    /\ InitKS({<<0>>}, {1}, {1})
    /\ InitQn
    /\ InitTopo({1}, {2}, {2}, {TRUE})
    /\ InitUtil
    /\ InitDriver({[driver |-> "comp-min", optimizer |-> "paropt", max_iterations |-> 0,
                    max_iter |-> 1, niter_finest |-> 1, gradient_check |-> FALSE,
                    max_opt_iters |-> <<>>]})
    /\ InitNonDesign
    /\ InitMark({0}, {1}, {<<0, 2>>}, {FALSE}, {0})
    /\ InitFound(0 .. MaxNodes, {"cantilever", "lbracket"}, {1, 2}, {0, 1}, PassedMax)

SpecFound == InitSpecFound /\ [][NextFound]_vars

\* the operations that overwrite the assembler's design variables for a
\* while: a behaviour makes qn_correction calls, or one of the other two
NextRestore ==
    \/ /\ ndm.op = "none"
       /\ \E s \in QnStepVecs(rp.nvars) :
             QnThroughAdapter(1, s, [k \in 1 .. rp.nvars |-> 0], 1)
    \/ /\ qn.ncalls = 0
       /\ NextRestoring

InitSpecRestore ==
    /\ InitReduced(FixedLists, {1}, {1}, {TRUE})
    /\ InitEvaluated({1}, EigScales, {FALSE}, QnRhos)
    /\ InitKS({<<0>>}, {1}, {1})
    /\ InitQn
    /\ InitTopo({1}, {2}, {2}, {TRUE})
    /\ InitUtil
    /\ InitRest

SpecRestore == InitSpecRestore /\ [][NextRestore]_vars

Init ==
    /\ InitReduced(FixedLists, DVValues, 1 .. MaxSnapEvery, BOOLEAN)
    /\ InitConstraint(Lambdas, EigScales, BOOLEAN, {1})
    /\ InitOthers

Next == NextReduced \/ NextRoundTrip \/ NextConstraint \/ NextKS \/ NextQn \/ NextTopo \/ NextUtil \/ NextDriver \/ NextNonDesign \/ NextMark \/ NextFound

Spec == Init /\ [][Next]_vars

-----------------------------------------------------------------------------
(* Properties of the ReducedProblem *)

\* C1: a reduced vector r written into a full-size vector by reduDVtoDV (with
\* the configured or an explicit fixed value) and read back by DVtoreduDV
\* comes back equal to r, entry by entry
RoundTripExact == rt.stage = "reduced" => rt.r2 = rt.r

\* a round trip with fixed and free indices and an explicit fixed value
RoundTripWitness ==
    /\ rt.stage = "reduced"
    /\ rp.fixed_dv_idx # <<>>
    /\ rp.free_dv_idx # <<>>
    /\ rt.fixed_val = <<0>>
    /\ rt.r[1] = 1

\* C2: whenever evalObjCon or evalObjConGradient runs the wrapped problem, the
\* full-size vector it passes holds fixed_dv_val at every fixed index and the
\* reduced input x[k] at free_dv_idx[k]
FullVectorPinned ==
    rpcall.op \in {"evalObjCon", "evalObjConGradient"} =>
       /\ \A i \in Range(rp.fixed_dv_idx) : rpcall.passed[i] = rp.fixed_dv_val
       /\ \A k \in 1 .. rp.nvars : rpcall.passed[rp.free_dv_idx[k]] = rpcall.x[k]

\* an evaluation after a curvature correction and an earlier evaluation, with
\* a fixed value that differs from the free input
FullVectorPinnedWitness ==
    /\ rpcall.op = "evalObjCon"
    /\ rp.num_obj_evals >= 1
    /\ rp.fixed_dv_idx # <<>>
    /\ rp.nvars >= 1
    /\ rp.fixed_dv_val = 1
    /\ rpcall.x[1] = 0
    /\ \E i \in DVIdx : rp.s_full[i] = 1

StrictlyAscending(q) == \A j, k \in 1 .. Len(q) : j < k => q[j] < q[k]

PartitionInv ==
    /\ Range(rp.fixed_dv_idx) \cap Range(rp.free_dv_idx) = {}
    /\ Range(rp.fixed_dv_idx) \cup Range(rp.free_dv_idx) = DVIdx
    /\ StrictlyAscending(rp.free_dv_idx)
    /\ rp.nvars = Cardinality(DVIdx \ Range(rp.fixed_dv_idx))
    /\ rp.nvars = Len(rp.free_dv_idx)

\* C3: fixed_dv_idx and free_dv_idx are disjoint and cover 0..len-1, free_dv_idx
\* is strictly ascending, nvars is the number of free indices, and no call
\* changes the partition
PartitionStable ==
    /\ []PartitionInv
    /\ [][/\ rp'.fixed_dv_idx = rp.fixed_dv_idx
          /\ rp'.free_dv_idx = rp.free_dv_idx
          /\ rp'.nvars = rp.nvars]_vars

\* a proper partition after evaluations and a curvature correction
PartitionWitness ==
    /\ rp.fixed_dv_idx # <<>>
    /\ rp.free_dv_idx # <<>>
    /\ rp.num_obj_evals >= 1
    /\ rpcall.op = "computeQuasiNewtonUpdateCorrection"

\* the counter values below n that are divisible by every, ascending
SnapshotIters(n, every) == SortedSeq({c \in 0 .. (n - 1) : c % every = 0})

EvalCounterInv ==
    /\ rp.num_obj_evals = rpcall.completed
    /\ Len(rp.snapshot.obj) = Len(rp.snapshot.iter)
    /\ Len(rp.snapshot.infeas) = Len(rp.snapshot.iter)
    /\ Len(rp.snapshot.discreteness) = Len(rp.snapshot.iter)
    /\ rp.snapshot.iter = SnapshotIters(rp.num_obj_evals, rp.save_snapshot_every)

\* C4: num_obj_evals counts the completed evalObjCon calls (from 0, one per
\* call, never down, untouched by the other callbacks), the four snapshot
\* lists have equal length, and iter lists exactly the counter values
\* divisible by save_snapshot_every, ascending
EvalCounter ==
    /\ []EvalCounterInv
    /\ [][/\ rp'.num_obj_evals \in {rp.num_obj_evals, rp.num_obj_evals + 1}
          /\ rp'.num_obj_evals # rp.num_obj_evals =>
                rpcall'.op = "evalObjCon" /\ rpcall'.returned
          /\ rpcall'.op = "evalObjCon" /\ rpcall'.returned =>
                rp'.num_obj_evals = rp.num_obj_evals + 1]_vars

\* two evaluations counted, only the first recorded, then a gradient call
EvalCounterWitness ==
    /\ rp.num_obj_evals = 2
    /\ rp.save_snapshot_every = 2
    /\ rp.snapshot.iter = <<0>>
    /\ rpcall.op = "evalObjConGradient"

-----------------------------------------------------------------------------
(* Properties of FrequencyConstr.constraint *)

\* C5: a constraint call runs the eigensolver once or twice, and twice exactly
\* when the first solve converged fewer than num_eigenvalues eigenvalues
SolveAtMostTwice ==
    /\ call.nsolves <= 2
    /\ call.pc \in {"rerun", "solve2"} => call.nsolves = 1
    /\ call.pc \in {"fail", "extract"} =>
          /\ call.nsolves \in {1, 2}
          /\ call.nsolves = 2 <=> call.nconvd1 < fc.num_eigenvalues

\* the rerun failed as well: two solves, no third
SolveTwiceWitness == call.pc = "fail" /\ call.nsolves = 2

\* the preconditioner matrix is A shifted by c and its factorisation is current
MgmatIs(c, nfactor) ==
    /\ fc.mgmat.d = [j \in Dofs |-> fc.Amat.d[j] + c]
    /\ fc.mgfactored = <<fc.mgmat.d>>
    /\ call.nfactor = nfactor

\* C6 as stated: whenever the first solve did not converge, the preconditioner
\* matrix is shifted by the smallest found eigenvalue and refactored before the
\* rerun starts
RerunAlwaysReshifted ==
    call.pc = "solve2" => MgmatIs(-call.eig0[1], 2)

\* C6 as the code has it: shifted by -eig0 and refactored when eig0 <= 0, left
\* as factored for the first solve when eig0 > 0
RerunReshiftedUnlessPositive ==
    call.pc = "solve2" =>
       IF call.eig0[1] <= 0 THEN MgmatIs(-call.eig0[1], 2) ELSE MgmatIs(0, 1)

\* a rerun about to start behind a shift by a negative eigenvalue
RerunReshiftedWitness == call.pc = "solve2" /\ call.eig0[1] < 0

\* K - lambda0 * M + c * I at density rho, K and M with the non-design blocks
OperatorDiag(self, rho, c) ==
    [j \in Dofs |->
       (StiffnessMat(rho).d[j]
          + (IF self.add_non_design_mass THEN kscale * StiffnessMat(1).d[j] ELSE 0))
       - self.lambda0
          * (MassMat(rho).d[j]
               + (IF self.add_non_design_mass THEN mscale * MassMat(1).d[j] ELSE 0))
       + c]

\* what every fatal failure leaves behind, apart from eig and eigv
FatalFailureCommon ==
    /\ "fail.f5" \in hist.files
    /\ asm.vars = fc.eigv[jd.nconvd + 1]
    /\ ~asm.vars.conv
    /\ \A i \in 1 .. jd.nconvd : fc.eigv[i].conv
    /\ call.ks = <<>>
    /\ fc.Amat.d = OperatorDiag(fc, hist.failed[1], 1 - pre.old_min_eigval)
    /\ fc.old_min_eigval = pre.old_min_eigval
    /\ fc.eta = pre.eta

\* C7 as stated: a failed rerun dumps the first unconverged eigenvector (a
\* valid index), raises, returns no KS value and does none of the extraction,
\* un-shift, shift update or KS aggregation
FatalFailureNoExtraction ==
    /\ call.pc = "fail" => jd.nconvd \in 0 .. (fc.num_eigenvalues - 1)
    /\ call.pc = "idle" /\ call.result = "raised" =>
          /\ FatalFailureCommon
          /\ fc.eig = pre.eig
          /\ fc.eigv = pre.eigv

\* C7 as the code has it: the same, except that the solver's unadjusted
\* eigenvalues and its eigenvectors are extracted into eig and eigv
FatalFailure ==
    /\ call.pc = "fail" => jd.nconvd \in 0 .. (fc.num_eigenvalues - 1)
    /\ call.pc = "idle" /\ call.result = "raised" =>
          /\ FatalFailureCommon
          /\ fc.eig = jd.vals
          /\ fc.eigv = jd.vecs

\* a fatal failure after an evaluation that succeeded with a non-zero shift
FatalFailureWitness ==
    /\ call.pc = "idle"
    /\ call.result = "raised"
    /\ hist.last # <<>>
    /\ fc.old_min_eigval # 0
    /\ jd.nconvd = 1

LastSuccessMin == IF hist.last = <<>> THEN 0 ELSE MinOf(hist.last[1].eig)

\* C9: the solver is given A = K - lambda0*M + (1 - shift)*I with shift =
\* old_min_eigval, which is 0 before the first success and the smallest
\* eigenvalue of the most recent successful call after it; after a success the
\* stored eigenvalues are the solver's plus (shift - 1), and they and A are
\* those of K - lambda0*M
OperatorShifted ==
    /\ fc.old_min_eigval = LastSuccessMin
    /\ call.pc \in {"solve1", "rerun", "solve2", "fail", "extract"} =>
          fc.Amat.d = OperatorDiag(fc, asm.dv, 1 - LastSuccessMin)
    /\ call.pc = "idle" /\ call.result = "returned" =>
          /\ fc.eig = [i \in 1 .. fc.num_eigenvalues |->
                         jd.vals[i] + (hist.last[1].shift - 1)]
          /\ fc.Amat.d = OperatorDiag(fc, hist.last[1].rho, 0)
          /\ fc.eig = Eigenvalues(Mat(OperatorDiag(fc, hist.last[1].rho, 0), TRUE),
                                  fc.num_eigenvalues)

\* a solve under a non-zero shift left by an earlier successful call
OperatorShiftedWitness ==
    /\ call.pc = "solve1"
    /\ hist.last # <<>>
    /\ fc.old_min_eigval # 0
    /\ fc.add_non_design_mass

\* C10: two successful constraint calls at the same density give the same
\* eigenvalues, the same KS value and the same gradient, whatever the cached
\* shift was at each call
IdempotentEvaluation ==
    (hist.prev # <<>> /\ hist.last # <<>> /\ hist.prev[1].rho = hist.last[1].rho) =>
       /\ hist.prev[1].eig = hist.last[1].eig
       /\ hist.prev[1].ks = hist.last[1].ks
       /\ (hist.prev[1].grad # <<>> /\ hist.last[1].grad # <<>>) =>
             hist.prev[1].grad = hist.last[1].grad

\* two evaluations at one density under different shifts, both with gradients
IdempotentWitness ==
    /\ hist.prev # <<>>
    /\ hist.last # <<>>
    /\ hist.prev[1].rho = hist.last[1].rho
    /\ hist.prev[1].shift # hist.last[1].shift
    /\ hist.prev[1].grad # <<>>
    /\ hist.last[1].grad # <<>>

\* C29: a call that ends in the fatal error leaves old_min_eigval and eta as
\* they were before it, so the operator of a call after a failure is shifted
\* by the smallest eigenvalue of the last successful call, 0 without one
FailureKeepsCache ==
    /\ (call.pc = "idle" /\ call.result = "raised") =>
          /\ fc.old_min_eigval = pre.old_min_eigval
          /\ fc.eta = pre.eta
          /\ fc.old_min_eigval = LastSuccessMin
    /\ (hist.failed # <<>> /\ call.pc = "solve1") =>
          /\ DiagShift(fc) = 1 - LastSuccessMin
          /\ fc.Amat.d = OperatorDiag(fc, asm.dv, 1 - LastSuccessMin)

\* a failure after a success that left a shift other than 0 and other than
\* the first value of the failing solve
FailureKeepsCacheWitness ==
    /\ call.pc = "idle"
    /\ call.result = "raised"
    /\ hist.last # <<>>
    /\ LastSuccessMin # 0
    /\ jd.vals[1] # LastSuccessMin
    /\ fc.eta = hist.last[1].ks.eta

-----------------------------------------------------------------------------
(* Properties of the KS aggregation *)

\* C11: the KS value eig_min - log(beta)/ksrho of an evaluation lies between
\* eig_min - log(N)/ksrho and eig_min, eig_min being the smallest of the
\* (scaled) eigenvalues aggregated: beta is a sum of N exponentials with
\* exponents <= 0, one of them 0, so 1 <= beta <= N
KSBounds ==
    ksio.stage = "aggregated" =>
       LET k == ksio.out[1]
           N == ksio.self.num_eigenvalues
       IN /\ ksio.self.ksrho > 0
          /\ \A i \in 1 .. N : k.eig_min <= ksio.scaled[i]
          /\ \E i \in 1 .. N : k.eig_min = ksio.scaled[i]
          /\ Len(k.beta) = N
          /\ \A i \in 1 .. N : k.beta[i] <= 0
          /\ \E i \in 1 .. N : k.beta[i] = 0

\* eigenvalues given in descending order, scaled up, aggregated
KSBoundsWitness ==
    /\ ksio.stage = "aggregated"
    /\ ksio.eig[1] > ksio.eig[2]
    /\ ksio.self.eig_scale = 2
    /\ ksio.self.ksrho = 2

\* C12: after a successful evaluation eta has one weight per requested
\* eigenpair, each a positive exponential over the common divisor beta, the
\* numerators are exactly the terms beta sums (so the weights sum to 1), and a
\* smaller eigenvalue never has a smaller weight
EtaWeights ==
    hist.last # <<>> =>
       /\ Len(fc.eta) = fc.num_eigenvalues
       /\ \A i \in 1 .. Len(fc.eta) :
             /\ fc.eta[i].beta # <<>>
             /\ fc.eta[i].beta = [k \in 1 .. Len(fc.eta) |-> fc.eta[k].logw]
       /\ (call.pc = "idle" /\ call.result = "returned") =>
             \A i, j \in 1 .. Len(fc.eta) :
                fc.eig[i] <= fc.eig[j] => fc.eta[i].logw >= fc.eta[j].logw

\* an evaluation that returned distinct eigenvalues, hence distinct weights
EtaWeightsWitness ==
    /\ call.pc = "idle"
    /\ call.result = "returned"
    /\ fc.eig[1] < fc.eig[2]
    /\ fc.eta[1].logw > fc.eta[2].logw

-----------------------------------------------------------------------------
(* Properties of qn_correction *)

\* the most recent qn_correction call: its intermediate vectors and result
LastQn == qn.r[1]

\* the vector handed over as y, as values linear in the weights
QnYBefore == [j \in DVIdx |-> LinConst(qn.y[j])]

\* C13: with a directional curvature (F s)^T (P F s) <= 0 the call leaves y
\* exactly as it was; with a curvature > 0 it adds z[0] times the
\* transposed-filtered update to y, an update that does not depend on z
CurvatureGate ==
    qn.ncalls > 0 =>
       LET T == ZeroEntries(ApplyTranspose(LastQn.update), qn.zero_idx, LinConst(0))
       IN /\ LastQn.curvature =
                LinSum([j \in DVIdx |-> LinScale(LastQn.svec[j], LastQn.update[j])],
                       DVIdx)
          /\ LinSign(LastQn.curvature, fc.eta) <= 0 => LastQn.y = QnYBefore
          /\ LinSign(LastQn.curvature, fc.eta) > 0 =>
                LastQn.y = [j \in DVIdx |-> LinAdd(QnYBefore[j], LinScale(qn.z, T[j]))]

\* a step of negative curvature whose update is not zero: y is left alone
CurvatureGateWitness ==
    /\ qn.ncalls > 0
    /\ LinSign(LastQn.curvature, fc.eta) < 0
    /\ \E j \in DVIdx : ApplyTranspose(LastQn.update)[j] # LinConst(0)
    /\ qn.z = 2

\* C14: every qn_correction call returns and appends one curvature to curvs
\* and one duration to qn_time, applied or not, so both lists are as long as
\* the number of calls made
QnAlwaysRecords ==
    /\ Len(fc.curvs) = qn.ncalls
    /\ Len(fc.qn_time) = qn.ncalls
    /\ qn.ncalls > 0 =>
          /\ fc.curvs[qn.ncalls] = LastQn.curvature
          /\ rpcall.op = "computeQuasiNewtonUpdateCorrection"
          /\ rpcall.returned

\* a skipped correction after an applied one, both recorded
QnAlwaysRecordsWitness ==
    /\ qn.ncalls = 2
    /\ ~LastQn.applied
    /\ LinSign(fc.curvs[1], fc.eta) > 0
    /\ LinSign(fc.curvs[2], fc.eta) < 0

\* C15: through the adapter with fixed indices, s and y arrive with 0 at the
\* fixed indices, the filtered step is 0 there before the perturbation, the
\* update is 0 there after it and after the transpose filter, and the reduced
\* y gets the free entries of the corrected full-size y
FixedEntriesZeroed ==
    (qn.ncalls > 0 /\ rp.fixed_dv_idx # <<>>) =>
       /\ qn.zero_idx = rp.fixed_dv_idx
       /\ \A i \in Range(rp.fixed_dv_idx) :
             /\ qn.s[i] = 0
             /\ qn.y[i] = 0
             /\ LastQn.svec[i] = 0
             /\ LastQn.update[i] = LinConst(0)
             /\ LastQn.final[i] = LinConst(0)
             /\ LastQn.y[i] = LinConst(0)
       /\ LastQn.fd = FiniteDifference(fc, [j \in DVIdx |-> asm.dv], LastQn.svec)
       /\ rp.y_full = LastQn.y
       /\ rpcall.out = IF rp.free_dv_idx # <<>>
                       THEN [k \in 1 .. rp.nvars |-> LastQn.y[rp.free_dv_idx[k]]]
                       ELSE qn.y_reduced

\* an applied correction where the filter and its transpose both put
\* something at a fixed index
FixedEntriesZeroedWitness ==
    /\ qn.ncalls > 0
    /\ LastQn.applied
    /\ rp.free_dv_idx # <<>>
    /\ \E i \in Range(rp.fixed_dv_idx) :
          /\ LastQn.filtered[i] # 0
          /\ ApplyTranspose(LastQn.update)[i] # LinConst(0)

\* the weighted sensitivity at the density of the call moved by t * svec
SensAlong(t) ==
    WeightedSens(fc, [j \in DVIdx |-> asm.dv + t * LastQn.svec[j]])

\* C16 as stated: the sensitivity is evaluated at density + h * (F s) and at
\* density - h * (F s), and the update is the difference over 2h
CentralDifference ==
    qn.ncalls > 0 =>
       /\ LastQn.points = <<[step |-> h, sign |-> 1], [step |-> -h, sign |-> -1]>>
       /\ LastQn.divisor = 2 * h
       /\ \A j \in DVIdx :
             LinScale(2 * h, LastQn.fd[j])
                = LinAdd(SensAlong(h)[j], LinScale(-1, SensAlong(-h)[j]))

\* C16 as the code has it: the sensitivity is evaluated at density + h * (F s)
\* and at the density itself, and the update is the difference over h
ForwardDifference ==
    qn.ncalls > 0 =>
       /\ LastQn.points = <<[step |-> h, sign |-> 1], [step |-> 0, sign |-> -1]>>
       /\ LastQn.divisor = h
       /\ \A j \in DVIdx :
             LinScale(h, LastQn.fd[j])
                = LinAdd(SensAlong(h)[j], LinScale(-1, SensAlong(0)[j]))

\* a call whose one-sided difference is not the two-sided one
ForwardDifferenceWitness ==
    /\ qn.ncalls > 0
    /\ \E j \in DVIdx :
          /\ LastQn.fd[j] # LinConst(0)
          /\ LinScale(2 * h, LastQn.fd[j])
                # LinAdd(SensAlong(h)[j], LinScale(-1, SensAlong(-h)[j]))

-----------------------------------------------------------------------------
(* Properties of createTopoProblem *)

\* the levels built
TopoLevels == 1 .. Len(topo.forests)

\* C17: a call with nlevels >= 1 builds nlevels levels, each with the filter
\* and the assembler of one callback call of its own; from a level to the
\* next the order is lowered by one on the same mesh if it exceeds
\* lowest_order, and the mesh is coarsened at the same order otherwise; the
\* orders never increase and stay at or above lowest_order if they start there
HierarchyBuilt ==
    (topo.pc = "done" /\ topo.nlevels >= 1) =>
       /\ Len(topo.forests) = topo.nlevels
       /\ Len(topo.filters) = topo.nlevels
       /\ Len(topo.assemblers) = topo.nlevels
       /\ topo.ncallbacks = topo.nlevels
       /\ topo.mg = <<topo.nlevels>>
       /\ \A k \in TopoLevels :
             /\ topo.filters[k] = [callback |-> k, mesh |-> topo.forests[k].mesh]
             /\ topo.assemblers[k] = [callback |-> k, mesh |-> topo.forests[k].mesh,
                                     order |-> topo.forests[k].order]
       /\ \A k \in TopoLevels \ {topo.nlevels} :
             IF topo.forests[k].order > topo.lowest_order
             THEN /\ topo.forests[k + 1].order = topo.forests[k].order - 1
                  /\ topo.forests[k + 1].mesh = topo.forests[k].mesh
             ELSE /\ topo.forests[k + 1].order = topo.forests[k].order
                  /\ topo.forests[k + 1].mesh = topo.forests[k].mesh + 1
       /\ \A k, l \in TopoLevels :
             k <= l => topo.forests[l].order <= topo.forests[k].order
       /\ topo.order0 >= topo.lowest_order =>
             \A k \in TopoLevels : topo.forests[k].order >= topo.lowest_order

\* a hierarchy that first lowers the order and then coarsens the mesh
HierarchyBuiltWitness ==
    /\ topo.pc = "done"
    /\ topo.nlevels = 3
    /\ topo.forests[2].order < topo.forests[1].order
    /\ topo.forests[3].mesh > topo.forests[2].mesh

\* "repartition" comes after "coarsen" and before "callback" in the events
RepartitionedBetween(events) ==
    \E a, b, c \in 1 .. Len(events) :
       /\ a < b /\ b < c
       /\ events[a] = "coarsen" /\ events[b] = "repartition" /\ events[c] = "callback"

BalancedBetween(events) ==
    \E a, b, c \in 1 .. Len(events) :
       /\ a < b /\ b < c
       /\ events[a] = "coarsen" /\ events[b] = "balance" /\ events[c] = "callback"

\* C18 as stated: every level made by coarsening the mesh is repartitioned
\* after the coarsening and before its callback call
CoarsenedAlwaysRepartitioned ==
    \A k \in TopoLevels :
       topo.forests[k].events[1] = "coarsen" =>
          RepartitionedBetween(topo.forests[k].events)

\* C18 as the code has it: every level made by coarsening the mesh is
\* balanced before its callback call, and repartitioned after the balance
\* exactly when the repartition argument is set
CoarsenedRepartitionedIfAsked ==
    \A k \in TopoLevels :
       topo.forests[k].events[1] = "coarsen" =>
          /\ BalancedBetween(topo.forests[k].events)
          /\ topo.repartition <=> RepartitionedBetween(topo.forests[k].events)
          /\ topo.repartition =>
                topo.forests[k].events
                   = <<"coarsen", "setMeshOrder", "balance", "repartition",
                       "callback", "createTACS">>

\* a coarsened level of a call with repartition set
CoarsenedRepartitionedWitness ==
    /\ topo.pc = "done"
    /\ topo.repartition
    /\ \E k \in TopoLevels : topo.forests[k].events[1] = "coarsen"

-----------------------------------------------------------------------------
(* Properties of the helpers *)

\* the keywords of the call that no option is named by
UnknownKeys(kwargs) ==
    {i \in 1 .. Len(kwargs) : kwargs[i][1] \notin OptKeys}

\* C19: a call of addNaturalFrequencyConstraint with a keyword that is not an
\* option raises ValueError and adds no frequency constraint to the problem
UnknownKeywordRejected ==
    \A c \in {util.freq[i] : i \in 1 .. Len(util.freq)} :
       UnknownKeys(c.kwargs) # {} =>
          /\ c.out.raised = "ValueError"
          /\ c.out.problem = c.before

\* an unknown keyword after a known one
UnknownKeywordWitness ==
    /\ util.freq # <<>>
    /\ util.freq[1].kwargs = <<<<"use_jd", TRUE>>, <<"num_eig", 1>>>>
    /\ util.freq[1].out.raised = "ValueError"

\* C20: computeVertexLoad raises ValueError and creates no vector when the
\* point force has not one entry per variable at a node; interpolateDesignVec
\* raises ValueError, creates no interpolation and leaves new_vec as it was
\* when either vector is not a TopoProblem's or their variables per node differ
ArgumentsValidatedFirst ==
    /\ \A c \in {util.load[i] : i \in 1 .. Len(util.load)} :
          Len(c.point_force) # c.vars_per_node =>
             /\ c.out.raised = "ValueError"
             /\ c.out.created = 0
             /\ c.out.force = <<>>
    /\ \A c \in {util.interp[i] : i \in 1 .. Len(util.interp)} :
          (\/ ~c.orig_vec.tmr
           \/ ~c.new_vec.tmr
           \/ c.orig_vec.vars_per_node # c.new_vec.vars_per_node) =>
             /\ c.out.raised = "ValueError"
             /\ c.out.interps = 0
             /\ c.out.new_vec = c.new_vec

\* a short point force, and two TopoProblem vectors that differ in their
\* variables per node
ArgumentsValidatedWitness ==
    /\ util.load # <<>>
    /\ Len(util.load[1].point_force) < util.load[1].vars_per_node
    /\ util.load[1].out.raised = "ValueError"
    /\ util.interp # <<>>
    /\ util.interp[1].orig_vec.tmr /\ util.interp[1].new_vec.tmr
    /\ util.interp[1].orig_vec.vars_per_node # util.interp[1].new_vec.vars_per_node
    /\ util.interp[1].out.raised = "ValueError"

\* the call passes use_jd=False
LanczosAsked(kwargs) ==
    \E i \in 1 .. Len(kwargs) : kwargs[i] = <<"use_jd", FALSE>>

\* C25: a call of addNaturalFrequencyConstraint with use_jd=False and
\* otherwise known options returns without raising, having added one
\* frequency constraint, not a Jacobi-Davidson one, with the max_lanczos and
\* tol options among its arguments
LanczosPathRegisters ==
    \A c \in {util.freq[i] : i \in 1 .. Len(util.freq)} :
       (UnknownKeys(c.kwargs) = {} /\ LanczosAsked(c.kwargs)) =>
          /\ c.out.raised = "none"
          /\ Len(c.out.problem) = Len(c.before) + 1
          /\ ~c.out.problem[Len(c.out.problem)].use_jd
          /\ Len(c.out.problem[Len(c.out.problem)].args) = Len(LanczosArgs)

-----------------------------------------------------------------------------
(* Properties of the refinement drivers *)

\* the steps entered so far, as positions in the log
DrvSteps == 1 .. Len(drv.log)

CompMin == drv.args.driver = "comp-min"

\* the interpolation of step k took the optimum of the step before from that
\* step's filter onto the filter of step k
InterpolatedFromBefore(k) ==
    /\ drv.log[k].interp # None
    /\ drv.log[k].interp[1].from = drv.log[k - 1].problem.filter
    /\ drv.log[k].interp[1].to = drv.log[k].problem.filter
    /\ drv.log[k].interp[1].src = drv.log[k - 1].xopt[1]
    /\ drv.log[k].interp[1].out.x = drv.log[k - 1].xopt[1].x

\* C21: the first step interpolates nothing; the optimizer of every later
\* step, whichever optimizer it is, starts from the optimum of the step
\* before interpolated onto the new filter
StartsFromInterpolated ==
    \A k \in DrvSteps :
       drv.log[k].ran =>
          IF k = 1
          THEN drv.log[k].interp = None
          ELSE /\ InterpolatedFromBefore(k)
               /\ drv.log[k].start = <<drv.log[k].interp[1].out>>

\* the run is over: the loop has ended or the gradient check has exited
DrvOver == drv.pc \in {"done", "exit"}

\* the steps of the log are 0, 1, ... in order, each optimized, each given
\* step * max_iter as its iteration counter and as its iter_offset, and each
\* but the last of the run followed by refine, balance, repartition
StepsInOrder ==
    \A k \in DrvSteps :
       /\ drv.log[k].step = k - 1
       /\ drv.log[k].ran
       /\ drv.log[k].problem.counter = (k - 1) * drv.args.max_iter
       /\ drv.log[k].problem.iter_offset = drv.log[k].problem.counter
       /\ IF k = drv.args.max_iterations
          THEN drv.log[k].events = <<"duplicate">>
          ELSE drv.log[k].events = <<"duplicate", "refine", "balance", "repartition">>

\* C22 as stated: a comp-min.py run ends after exactly max_iterations steps
\* 0 .. max_iterations - 1, refined, balanced and repartitioned after each
\* but the last, with k * max_iter the iteration counter of step k
AlwaysAllSteps ==
    (CompMin /\ DrvOver) =>
       /\ Len(drv.log) = drv.args.max_iterations
       /\ StepsInOrder

\* C22 as the code has it: the same of a run without --gradient-check; a run
\* with it ends in the first step, after the problem is built with counter 0
\* and before any optimizer runs
AllStepsUnlessGradientCheck ==
    (CompMin /\ DrvOver) =>
       IF drv.args.gradient_check /\ drv.args.max_iterations > 0
       THEN /\ drv.pc = "exit"
            /\ Len(drv.log) = 1
            /\ drv.log[1].step = 0
            /\ drv.log[1].problem.counter = 0
            /\ ~drv.log[1].ran
            /\ drv.log[1].events = <<>>
       ELSE /\ drv.pc = "done"
            /\ Len(drv.log) = drv.args.max_iterations
            /\ StepsInOrder

\* a run of three steps that has ended
AllStepsWitness ==
    /\ CompMin /\ drv.pc = "done"
    /\ drv.args.max_iterations = 3
    /\ drv.args.max_iter = 2
    /\ drv.log[3].problem.counter = 4

\* C23: in a comp-min.py run the optimizer of the final step, whichever it
\* is, runs with niter_finest and that of every earlier step with max_iter
FinalStepBudget ==
    CompMin =>
       \A k \in DrvSteps :
          drv.log[k].ran =>
             drv.log[k].budget = IF k = drv.args.max_iterations
                                 THEN drv.args.niter_finest
                                 ELSE drv.args.max_iter

\* the refinement of step k went to another forest object than the one the
\* problem of the step is built on, and left that one as it was
Superseded(k) ==
    /\ drv.log[k].refined[1] # drv.log[k].problem.forest
    /\ drv.heap[drv.log[k].problem.forest].gen = drv.log[k].forest_gen

\* the filter of step k is as it was built, and was so when the next step's
\* interpolation read it
FilterIntact(k) ==
    /\ drv.heap[drv.log[k].problem.filter].gen = drv.log[k].filter_gen
    /\ (k + 1 \in DrvSteps /\ drv.log[k + 1].interp # None) =>
          /\ drv.log[k + 1].interp[1].from = drv.log[k].problem.filter
          /\ drv.log[k + 1].interp[1].from_gen = drv.log[k].filter_gen

\* C24 as stated: in both drivers the refinement goes to a fresh duplicate,
\* never to the forest of the step just optimized, and the old filter stays
\* intact
NeverRefinedInPlace ==
    \A k \in DrvSteps :
       /\ drv.log[k].refined # None => Superseded(k)
       /\ FilterIntact(k)

\* C24 as the code has it: comp-min.py refines a fresh duplicate; bernstein.py
\* refines the forest of the step just optimized itself; in both the old
\* filter stays intact
RefinedInPlaceOnlyInBernstein ==
    \A k \in DrvSteps :
       /\ drv.log[k].refined # None =>
             IF CompMin
             THEN Superseded(k)
             ELSE /\ drv.log[k].refined[1] = drv.log[k].problem.forest
                  /\ drv.heap[drv.log[k].problem.forest].gen >= drv.log[k].forest_gen + 1
       /\ FilterIntact(k)

\* a bernstein.py run whose second step has interpolated from the filter of
\* the first, after the forest of the first was refined
RefinedInPlaceWitness ==
    /\ ~CompMin
    /\ Len(drv.log) >= 2
    /\ drv.log[1].refined = <<drv.log[1].problem.forest>>
    /\ drv.log[2].interp # None

-----------------------------------------------------------------------------
(* Properties of the non-design blocks *)

\* C26: addNonDesignMat leaves the mass matrix with the non-design mass block
\* added and the stiffness matrix with the non-design stiffness block added,
\* each with the boundary conditions applied to its updated values
NonDesignBlocksAddedWithBCs ==
    ndm.op = "addNonDesignMat" =>
       /\ ndm.out[1].d = [j \in Dofs |-> ndm.args.mmat.d[j] + ndm.args.m0mat.d[j]]
       /\ ndm.out[2].d = [j \in Dofs |-> ndm.args.kmat.d[j] + ndm.args.k0mat.d[j]]
       /\ ndm.out[1].bcs
       /\ ndm.out[2].bcs

\* the assembler's design variables after the latest qn_correction call are
\* those it read before perturbing them, with a perturbation in between
QnRestores ==
    qn.r # <<>> =>
       /\ LastQn.rho_original = [j \in DVIdx |-> qn.dv_before]
       /\ LastQn.dvs[1] = [j \in DVIdx |-> LastQn.rho_original[j] + h * LastQn.svec[j]]
       /\ LastQn.dvs[Len(LastQn.dvs)] = LastQn.rho_original
       /\ asm.dv = qn.dv_before
       /\ LastQn.s = qn.s
       /\ rp.s_full = qn.s

\* C30: qn_correction, computeNonDesignMat and the non-design branch of
\* GeneralEigSolver.compute leave the assembler with the design variables it
\* held right before they overwrote them (in compute: the filtered x), and
\* qn_correction changes none of s, the cached eigenvectors, eta and
\* old_min_eigval
DesignVarsRestored ==
    /\ QnRestores
    /\ qn.r # <<>> =>
          /\ fc.eigv = pre.eigv
          /\ fc.eta = pre.eta
          /\ fc.old_min_eigval = pre.old_min_eigval
    /\ ndm.op = "computeNonDesignMat" =>
          /\ ndm.out.sets[1] = DvOne(ndm.args.indices)
          /\ ndm.out.dv = ndm.args.dv
    /\ (ndm.op = "compute" /\ ndm.args.add_non_design_mass) =>
          /\ ndm.out.sets[2] = DvOne(ndm.args.indices)
          /\ ndm.out.dv = ndm.out.rho
          /\ ndm.out.mg = StiffnessOf(ApplyFilter(ndm.args.x))

\* a qn_correction call whose perturbed density differs from the original
DesignVarsRestoredWitness ==
    /\ qn.r # <<>>
    /\ LastQn.dvs[1] # LastQn.rho_original
    /\ LastQn.applied


-----------------------------------------------------------------------------
(* Properties of densityBasedRefine and find_indices *)

\* the densities of component mark.index at the nodes of element i
NodeDensities(i) ==
    {mark.elems[i][(n - 1) * mark.dpn + mark.index + 1] : n \in ElemNodes}

\* the mark the density scheme gives element i
SchemeMark(i) ==
    IF mark.reverse
    THEN IF \A v \in NodeDensities(i) : v >= mark.upper THEN -1
         ELSE IF \E v \in NodeDensities(i) : v <= mark.lower THEN 1
         ELSE 0
    ELSE IF \E v \in NodeDensities(i) : v >= mark.upper THEN 1
         ELSE IF \A v \in NodeDensities(i) : v <= mark.lower THEN -1
         ELSE 0

\* C27: densityBasedRefine marks every element with exactly one of +1, -1 and
\* 0: without reverse an element whose largest density is at least upper is
\* refined, one whose largest density is at most lower is coarsened, any other
\* is kept; with reverse the smallest density is used and the two outcomes are
\* swapped; the upper test wins when both hold; forest.refine is called exactly
\* once, with these marks and with min_lev and max_lev as they were passed
MarkedByDensity ==
    mark.stage = "refined" =>
        /\ DOMAIN mark.out[1].refine = DOMAIN mark.elems
        /\ \A i \in DOMAIN mark.elems :
              /\ mark.out[1].refine[i] \in {-1, 0, 1}
              /\ mark.out[1].refine[i] = SchemeMark(i)
        /\ Len(mark.out[1].calls) = 1
        /\ mark.out[1].calls[1] = [op |-> "refine", refine |-> mark.out[1].refine,
                                   min_lev |-> mark.min_lev, max_lev |-> mark.max_lev]

\* a reversed call marked an element whose smallest density passes both tests,
\* and whose largest density would have passed neither or another one
MarkedByDensityWitness ==
    /\ mark.stage = "refined"
    /\ mark.reverse
    /\ \E i \in DOMAIN mark.elems :
          /\ \A v \in NodeDensities(i) : v >= mark.upper
          /\ \E v \in NodeDensities(i) : v <= mark.lower
          /\ Cardinality(NodeDensities(i)) > 1
          /\ mark.out[1].refine[i] = -1

\* the box the caller asked for: the passed value of each maximum, and the
\* domain length where it was omitted
AskedMax(d) ==
    IF found.maxs[d] = None
    THEN DomainLengths(found.domain, found.len0, found.AR, found.ratio)[d]
    ELSE found.maxs[d][1]

\* the owned nodes inside that box, by position minus the ext-pre offset
OwnedInBox ==
    {p - found.forest.n_ext_pre :
        p \in {p \in found.forest.n_ext_pre ..
                      (Len(found.forest.Xpts) - found.forest.n_ext_post - 1) :
                  \A d \in 1 .. 3 :
                     /\ found.mins[d] <= found.forest.Xpts[p + 1][d]
                     /\ found.forest.Xpts[p + 1][d] <= AskedMax(d)}}

\* C28: find_indices returns, ascending and without duplicates, exactly the
\* indices (position minus the ext-pre offset) of the owned nodes whose
\* coordinates lie between the minima and maxima the caller passed, an omitted
\* maximum being the domain length in that direction
FoundOwnedInBox ==
    found.stage = "found" =>
        /\ \A a, b \in DOMAIN found.indices : a < b => found.indices[a] < found.indices[b]
        /\ {found.indices[a] : a \in DOMAIN found.indices} = OwnedInBox

====
